---- MODULE Spec2Model ----
(***************************************************************************)
(* Model of the query federation engine of src/impl.py: the two upload     *)
(* handlers that populate a graph store (journals) and a relational store  *)
(* (categories, areas, quartiles), the two query handlers that read them,  *)
(* and BasicQueryEngine / FullQueryEngine that fan a query out to the      *)
(* registered handlers.                                                    *)
(*                                                                         *)
(* Python values are modelled as follows.  Strings are TLA+ strings, None  *)
(* is the reserved string PyNone, relational NULL is read back by pandas   *)
(* as None.  A call's outcome is a record: Ok(v) when the call returns v,  *)
(* Raise(e) when exception e leaves the call.  Where the source leaves an  *)
(* order open (rows of a store answer, iteration over a Python set) an     *)
(* operator yields the SET of outcomes the call can have.                  *)
(***************************************************************************)
EXTENDS Integers, Sequences, FiniteSets, TLC

VARIABLES graph, db, net, journalQuery, categoryQuery, pc, call, ret, invoked,
          connections, discovered

vars == <<graph, db, net, journalQuery, categoryQuery, pc, call, ret, invoked,
          connections, discovered>>

-----------------------------------------------------------------------------
(* Bounds and finite universes                                             *)

\* largest number of handlers held by the two registries together
MaxHandlers == 3

PyNone == "<None>"

GraphUrls == {"g1", "g2"}
DbPaths == {"d1", "d2"}
UnsetUrl == ""

Quartiles == {"Q1", "Q2"}
LicenseValues == {"L1", "L2"}
CategoryIdArgs == {"c1", "c2"}
AreaIdArgs == {"a1", "c2"}
EntityIds == {"j1", "j2", "j3", "c1", "c2", "a1", "zz"}
TitleArgs == {"alph", "REV", "zz"}
PublisherArgs == {"p1", "zz"}

-----------------------------------------------------------------------------
(* Generic helpers                                                         *)

Ok(v) == [raised |-> FALSE, val |-> v]
Raise(e) == [raised |-> TRUE, exc |-> e]

Range(s) == {s[i] : i \in 1..Len(s)}

\* all the orders in which the elements of a finite set can be delivered
RECURSIVE Enumerations(_)
Enumerations(S) ==
  IF S = {} THEN {<<>>}
  ELSE UNION {{<<x>> \o s : s \in Enumerations(S \ {x})} : x \in S}

\* the orders of S that differ in the row delivered first; for a caller that
\* reads only the first row (iloc[0]) and order-free facts of the whole
\* result (empty, isna().all()) these stand for all of Enumerations(S)
RECURSIVE SomeOrder(_)
SomeOrder(S) ==
  IF S = {} THEN <<>>
  ELSE LET x == CHOOSE y \in S : TRUE IN <<x>> \o SomeOrder(S \ {x})

FirstRowOrders(S) ==
  IF S = {} THEN {<<>>} ELSE {<<x>> \o SomeOrder(S \ {x}) : x \in S}

\* Python truthiness of a string-or-None value
Truthy(v) == v # PyNone /\ v # ""

\* float('nan'), the cell pandas leaves where a row has no value
PyNaN == "<NaN>"

\* isinstance(v, str), on the cell values that occur
IsStr(v) == v \notin {PyNone, PyNaN}

\* str(v)
PyStr(v) == IF v = PyNone THEN "None" ELSE v

\* v.lower(), on the strings that occur
Lower(s) ==
  CASE s = "True" -> "true"
    [] s = "False" -> "false"
    [] s = "None" -> "none"
    [] s = "Yes" -> "yes"
    [] s = "No" -> "no"
    [] s = "YES" -> "yes"
    [] s = "Alpha" -> "alpha"
    [] s = "Beta Review" -> "beta review"
    [] s = "REV" -> "rev"
    [] s = "P1" -> "p1"
    [] OTHER -> s

\* CONTAINS(s, sub), on the strings that occur
Contains(s, sub) ==
  \/ sub = ""
  \/ s = sub
  \/ <<s, sub>> \in {<<"alpha", "alph">>, <<"beta review", "rev">>}

-----------------------------------------------------------------------------
(* Entity model, src/impl.py 12-67                                         *)

Journal(id, title, languages, publisher, seal, licence, apc, categories, areas) ==
  [kind |-> "Journal", id |-> id, title |-> title, languages |-> languages,
   publisher |-> publisher, seal |-> seal, licence |-> licence, apc |-> apc,
   categories |-> categories, areas |-> areas]

Category(id, quartile) == [kind |-> "Category", id |-> id, quartile |-> quartile]

Area(id) == [kind |-> "Area", id |-> id]

NoEntity == [kind |-> "None"]

-----------------------------------------------------------------------------
(* Handlers, src/impl.py 69-78, 259-264, 517                               *)

Handler(cls, url) == [cls |-> cls, dbPathOrUrl |-> url]

JournalQueryHandlers == {Handler("JournalQueryHandler", u) : u \in GraphUrls \cup {UnsetUrl}}
CategoryQueryHandlers == {Handler("CategoryQueryHandler", p) : p \in DbPaths \cup {UnsetUrl}}
OtherObjects ==
  {Handler("JournalUploadHandler", "g1"), Handler("CategoryUploadHandler", "d1"),
   Handler("QueryHandler", UnsetUrl)}
Objects == JournalQueryHandlers \cup CategoryQueryHandlers \cup OtherObjects

\* a check against the common base class QueryHandler instead of the wanted
\* class
IsInstance_AnyQueryHandler(handler, cls) ==
  handler.cls \in {"QueryHandler", "JournalQueryHandler", "CategoryQueryHandler"}

\* isinstance(handler, cls): no class of the module derives from the two
\* query handler classes
IsInstance(handler, cls) == handler.cls = cls

-----------------------------------------------------------------------------
(* The graph store and JournalUploadHandler.pushDataToDb, src/impl.py      *)
(* 84-155.  A store is a set of triples; a URI is the sequence of its      *)
(* '/'-separated segments.                                                 *)

Triple(s, p, o) == [s |-> s, p |-> p, o |-> o]

\* journal['Journal title'].replace(' ', '_')
ReplaceSpaces(t) ==
  CASE t = "Beta Review" -> "Beta_Review"
    [] OTHER -> t

\* urllib.parse.quote: the characters of the slugs that occur are all safe
Quote(s) ==
  CASE s = "C&D" -> "C%26D"
    [] OTHER -> s

\* <http://example.org/journal/{quote(journal_id)}>, on the slugs that occur
JournalUri(journal_id) ==
  CASE Quote(journal_id) = "Alpha" -> "http://example.org/journal/Alpha"
    [] Quote(journal_id) = "Beta_Review" -> "http://example.org/journal/Beta_Review"
    [] OTHER -> "http://example.org/journal/"

\* uri.split('/')[-1]
LastSegment(uri) ==
  CASE uri = "http://example.org/journal/Alpha" -> "Alpha"
    [] uri = "http://example.org/journal/Beta_Review" -> "Beta_Review"
    [] uri = "http://example.org/journal/" -> ""
    [] uri = "http://example.org/journal/j1" -> "j1"
    [] OTHER -> uri

\* s.strip(), on the strings that occur
Strip(s) ==
  CASE s = " Yes" -> "Yes"
    [] s = "No " -> "No"
    [] OTHER -> s

\* f'"{has_seal}"': str() of a Python bool
PyBoolStr(b) == IF b THEN "True" ELSE "False"


\* one CSV row -> the triples of its INSERT DATA (none when the title is empty)
JournalTriples(journal) ==
  LET journal_id == IF journal.title # "" THEN ReplaceSpaces(journal.title) ELSE ""
      uri == JournalUri(journal_id)
      issns == {i \in {Strip(journal.issn_p), Strip(journal.issn_e)} : i # ""}
      languages == {Strip(l) : l \in {x \in Range(journal.languages) : Strip(x) # ""}}
      has_seal == Lower(Strip(journal.seal)) = "yes"
      has_apc == Lower(Strip(journal.apc)) = "yes"
  IN IF journal_id = "" THEN {}
     ELSE {Triple(uri, "rdf:type", "schema:Periodical"),
           Triple(uri, "dc:title", journal.title),
           Triple(uri, "schema:doajSeal", PyBoolStr(has_seal)),
           Triple(uri, "schema:apc", PyBoolStr(has_apc))}
          \cup {Triple(uri, "dc:identifier", i) : i \in issns}
          \cup {Triple(uri, "dc:language", l) : l \in languages}
          \cup (IF journal.publisher # ""
                THEN {Triple(uri, "dc:publisher", journal.publisher)} ELSE {})
          \cup (IF journal.license # ""
                THEN {Triple(uri, "dc:license", journal.license)} ELSE {})

JournalPushRow(triples, journal) == triples \cup JournalTriples(journal)

\* the store after pushDataToDb(file) on a store holding `triples`
RECURSIVE JournalPushDataToDb(_, _)
JournalPushDataToDb(triples, file) ==
  IF file = <<>> THEN triples
  ELSE JournalPushDataToDb(JournalPushRow(triples, Head(file)), Tail(file))

CsvRow(title, issn_p, issn_e, languages, publisher, license, seal, apc) ==
  [title |-> title, issn_p |-> issn_p, issn_e |-> issn_e, languages |-> languages,
   publisher |-> publisher, license |-> license, seal |-> seal, apc |-> apc]

\* the journal file each endpoint is loaded from
JournalFile(url) ==
  IF url = "g1"
  THEN << CsvRow("Alpha", "j1", "", <<"en">>, "P1", "L1", "Yes", "No"),
          CsvRow("Beta Review", "j2", "", <<"en", "fr">>, "", "L2", "No", "Yes") >>
  ELSE << CsvRow("Alpha", "j1", "", <<>>, "P1", "L2", "No", " Yes"),
          CsvRow("", "j3", "", <<"en">>, "P1", "L1", "No", "No") >>

-----------------------------------------------------------------------------
(* The relational store and CategoryUploadHandler.pushDataToDb,            *)
(* src/impl.py 157-257                                                     *)

EmptyDb ==
  [journals |-> {}, categories |-> {}, areas |-> {},
   journal_categories |-> {}, category_areas |-> {}]

\* INSERT OR IGNORE INTO journal_categories: primary key (journal_id, category_id)
InsertJournalCategory(tbl, journal_id, category_id, quartile) ==
  IF \E r \in tbl : r.journal_id = journal_id /\ r.category_id = category_id
  THEN tbl
  ELSE tbl \cup {[journal_id |-> journal_id, category_id |-> category_id,
                  quartile |-> quartile]}

\* lines 224-236: the categories of one identifier, and its associations
RECURSIVE PushCategories(_, _, _)
PushCategories(d, identifier, categories) ==
  IF categories = <<>> THEN d
  ELSE LET category == Head(categories)
           next == IF Truthy(category.id)
                   THEN [d EXCEPT
                           !.categories = @ \cup {category.id},
                           !.journal_categories =
                              InsertJournalCategory(@, identifier, category.id,
                                                    category.quartile)]
                   ELSE d
       IN PushCategories(next, identifier, Tail(categories))

\* lines 239-251: the areas of one item, each linked to every category of it
RECURSIVE PushAreas(_, _, _)
PushAreas(d, areas, categories) ==
  IF areas = <<>> THEN d
  ELSE LET area_id == Head(areas)
           linked == {c.id : c \in {x \in Range(categories) : Truthy(x.id)}}
           next == IF Truthy(area_id)
                   THEN [d EXCEPT
                           !.areas = @ \cup {area_id},
                           !.category_areas =
                              @ \cup {[category_id |-> c, area_id |-> area_id] :
                                        c \in linked}]
                   ELSE d
       IN PushAreas(next, Tail(areas), categories)

\* lines 218-251: the identifiers of one item
RECURSIVE PushIdentifiers(_, _, _)
PushIdentifiers(d, identifiers, item) ==
  IF identifiers = <<>> THEN d
  ELSE LET identifier == Head(identifiers)
           withJournal == [d EXCEPT !.journals = @ \cup {identifier}]
           withCategories == PushCategories(withJournal, identifier, item.categories)
       IN PushIdentifiers(PushAreas(withCategories, item.areas, item.categories),
                          Tail(identifiers), item)

\* lines 212-251: one item of the JSON file
CategoryPushItem(d, item) == PushIdentifiers(d, item.identifiers, item)

\* the store after pushDataToDb(file) on a store holding d
RECURSIVE CategoryPushDataToDb(_, _)
CategoryPushDataToDb(d, file) ==
  IF file = <<>> THEN d
  ELSE CategoryPushDataToDb(CategoryPushItem(d, Head(file)), Tail(file))

JsonItem(identifiers, categories, areas) ==
  [identifiers |-> identifiers, categories |-> categories, areas |-> areas]

JsonCategory(id, quartile) == [id |-> id, quartile |-> quartile]

\* the classification file each database is loaded from
CategoryFile(path) ==
  IF path = "d1"
  THEN << JsonItem(<<"j1">>, <<JsonCategory("c1", "Q1")>>, <<"a1">>),
          JsonItem(<<"j2">>, <<JsonCategory("c1", PyNone)>>, <<"a1", "c2">>) >>
  ELSE << JsonItem(<<"j2">>, <<JsonCategory("c1", "Q2"), JsonCategory("c2", "Q1")>>,
                   <<"a1">>),
          JsonItem(<<"j3", "j1">>, <<JsonCategory("c2", "Q2")>>, <<"c2">>),
          JsonItem(<<"c1">>, <<JsonCategory("c2", "Q1")>>, <<>>) >>

-----------------------------------------------------------------------------
(* JournalQueryHandler, src/impl.py 264-515.  Every method sends one       *)
(* SELECT to the endpoint and turns the JSON answer into a DataFrame.      *)

Unbound == "<unbound>"

Subjects(g) == {t.s : t \in g}
Objs(g, s, p) == {t.o : t \in {x \in g : x.s = s /\ x.p = p}}

\* OPTIONAL { ?journal p ?v }: every value, or one solution leaving ?v unbound
Optional(g, s, p) == IF Objs(g, s, p) = {} THEN {Unbound} ELSE Objs(g, s, p)

\* a solution as the JSON object of the answer: bound variables only
Binding(journal, title, language, publisher, license, seal, apc) ==
  LET full == [journal |-> [type |-> "uri", value |-> journal],
               title |-> [type |-> "literal", value |-> title],
               language |-> [type |-> "literal", value |-> language],
               publisher |-> [type |-> "literal", value |-> publisher],
               license |-> [type |-> "literal", value |-> license],
               seal |-> [type |-> "literal", value |-> seal],
               apc |-> [type |-> "literal", value |-> apc]]
      bound == {v \in DOMAIN full : full[v].value # Unbound}
  IN [v \in bound |-> full[v]]

\* the solutions of the common graph pattern for the subjects S; a variable
\* the query does not mention in its pattern stays unbound
Solutions(g, S, licenseOf, sealOf, apcOf) ==
  UNION {{Binding(s, c[1], c[2], c[3], c[4], c[5], c[6]) :
            c \in Objs(g, s, "dc:title") \X Optional(g, s, "dc:language")
                  \X Optional(g, s, "dc:publisher") \X licenseOf[s]
                  \X sealOf[s] \X apcOf[s]} : s \in S}

\* the conditions a graph endpoint can be in: answering, not accepting
\* connections, answering every request with status 500, answering with
\* status 200 and a body that is no JSON
EndpointStates == {"up", "unreachable", "error", "malformed"}

\* a response body that response.json() cannot decode
Garbled == [text |-> "<html>"]

\* requests.get(url, ...): no connection adapter for an unset URL, a
\* ConnectionError from an endpoint that is down
HttpGet(url, status, bindings) ==
  IF url \notin GraphUrls THEN Raise("MissingSchema")
  ELSE IF net = "unreachable" THEN Raise("ConnectionError")
  ELSE IF net = "error" THEN Ok([status_code |-> 500, json |-> Garbled])
  ELSE IF net = "malformed" THEN Ok([status_code |-> 200, json |-> Garbled])
  ELSE Ok([status_code |-> status, json |-> [results |-> [bindings |-> bindings]]])

\* response.status_code == 200, then response.json(): the decoded body, or
\* the exception of a body that is no JSON; any other status is not decoded
ResponseJson(response) ==
  IF response.status_code = 200 /\ response.json = Garbled
  THEN Raise("JSONDecodeError")
  ELSE Ok(response)

\* pd.json_normalize(bindings): nested objects are flattened, one column per
\* (variable, key) pair, one scalar per cell
JsonNormalize(bindings) ==
  LET names == UNION {DOMAIN bindings[i] : i \in 1..Len(bindings)}
      columns == {<<n, k>> : n \in names, k \in {"type", "value"}}
  IN [columns |-> columns,
      rows |-> [i \in 1..Len(bindings) |->
                  [c \in columns |->
                     IF c[1] \in DOMAIN bindings[i]
                     THEN [isdict |-> FALSE, scalar |-> bindings[i][c[1]][c[2]]]
                     ELSE [isdict |-> FALSE, scalar |-> "NaN"]]]]

\* lambda x: x['value'] if isinstance(x, dict) and 'value' in x else None
ProcessValue(x) ==
  IF x.isdict /\ "value" \in DOMAIN x.dict THEN x.dict.value ELSE PyNone

EmptyFrame == [columns |-> {}, rows |-> <<>>]

FrameEmpty(df) == df.columns = {} \/ df.rows = <<>>

\* lines 287-299 (the same in every method): the answer -> DataFrame
ProcessResponse(response) ==
  IF response.status_code = 200
  THEN LET df == JsonNormalize(response.json.results.bindings)
       IN IF ~FrameEmpty(df)
          THEN \* df_processed[col.split('.')[0]] = df[col].apply(...), the
               \* "value" column assigned last
               [columns |-> {c[1] : c \in df.columns},
                rows |-> [i \in 1..Len(df.rows) |->
                            [n \in {c[1] : c \in df.columns} |->
                               ProcessValue(df.rows[i][<<n, "value">>])]]]
          ELSE EmptyFrame
  ELSE EmptyFrame

\* the outcomes of one handler method: one per order of the answer's rows
HandlerOutcomes(url, status, solutions) ==
  {IF r.raised THEN r
   ELSE IF ResponseJson(r.val).raised THEN ResponseJson(r.val)
   ELSE Ok(ProcessResponse(r.val)) :
     r \in {HttpGet(url, status, b) : b \in Enumerations(solutions)}}

JournalQueryHandler_getById(handler, id) ==
  LET g == IF handler.dbPathOrUrl \in GraphUrls THEN graph[handler.dbPathOrUrl] ELSE {}
      S == {s \in Subjects(g) : id \in Objs(g, s, "dc:identifier")}
      lic == [s \in S |-> Optional(g, s, "dc:license")]
      seal == [s \in S |-> Optional(g, s, "schema:doajSeal")]
      apc == [s \in S |-> Optional(g, s, "schema:apc")]
  IN HandlerOutcomes(handler.dbPathOrUrl, 200, Solutions(g, S, lic, seal, apc))

JournalQueryHandler_getAllJournals(handler) ==
  LET g == IF handler.dbPathOrUrl \in GraphUrls THEN graph[handler.dbPathOrUrl] ELSE {}
      S == {s \in Subjects(g) : "schema:Periodical" \in Objs(g, s, "rdf:type")}
      lic == [s \in S |-> Optional(g, s, "dc:license")]
      seal == [s \in S |-> Optional(g, s, "schema:doajSeal")]
      apc == [s \in S |-> Optional(g, s, "schema:apc")]
  IN HandlerOutcomes(handler.dbPathOrUrl, 200, Solutions(g, S, lic, seal, apc))

\* FILTER(?license = "l1" || ...): an empty disjunction is a syntax error,
\* which the endpoint answers with status 400
JournalQueryHandler_getJournalsWithLicense(handler, licenses) ==
  LET g == IF handler.dbPathOrUrl \in GraphUrls THEN graph[handler.dbPathOrUrl] ELSE {}
      S == {s \in Subjects(g) : "schema:Periodical" \in Objs(g, s, "rdf:type")}
      lic == [s \in S |-> Objs(g, s, "dc:license") \cap licenses]
      seal == [s \in S |-> Optional(g, s, "schema:doajSeal")]
      apc == [s \in S |-> Optional(g, s, "schema:apc")]
  IN IF licenses = {}
     THEN HandlerOutcomes(handler.dbPathOrUrl, 400, {})
     ELSE HandlerOutcomes(handler.dbPathOrUrl, 200, Solutions(g, S, lic, seal, apc))

\* FILTER(CONTAINS(LCASE(?title), LCASE("{partial_title}")))
JournalQueryHandler_getJournalsWithTitle(handler, partial_title) ==
  LET g == IF handler.dbPathOrUrl \in GraphUrls THEN graph[handler.dbPathOrUrl] ELSE {}
      S == {s \in Subjects(g) : "schema:Periodical" \in Objs(g, s, "rdf:type")}
      lic == [s \in S |-> Optional(g, s, "dc:license")]
      seal == [s \in S |-> Optional(g, s, "schema:doajSeal")]
      apc == [s \in S |-> Optional(g, s, "schema:apc")]
  IN HandlerOutcomes(handler.dbPathOrUrl, 200,
                     {b \in Solutions(g, S, lic, seal, apc) :
                        Contains(Lower(b.title.value), Lower(partial_title))})

\* ?journal dc:publisher ?publisher . FILTER(CONTAINS(LCASE(?publisher), ...))
JournalQueryHandler_getJournalsPublishedBy(handler, partial_name) ==
  LET g == IF handler.dbPathOrUrl \in GraphUrls THEN graph[handler.dbPathOrUrl] ELSE {}
      S == {s \in Subjects(g) : /\ "schema:Periodical" \in Objs(g, s, "rdf:type")
                                /\ Objs(g, s, "dc:publisher") # {}}
      lic == [s \in S |-> Optional(g, s, "dc:license")]
      seal == [s \in S |-> Optional(g, s, "schema:doajSeal")]
      apc == [s \in S |-> Optional(g, s, "schema:apc")]
  IN HandlerOutcomes(handler.dbPathOrUrl, 200,
                     {b \in Solutions(g, S, lic, seal, apc) :
                        Contains(Lower(b.publisher.value), Lower(partial_name))})

\* ?journal schema:apc "true": the literal is matched as written, and ?apc
\* is not in the pattern, so it stays unbound
JournalQueryHandler_getJournalsWithAPC(handler) ==
  LET g == IF handler.dbPathOrUrl \in GraphUrls THEN graph[handler.dbPathOrUrl] ELSE {}
      S == {s \in Subjects(g) : /\ "schema:Periodical" \in Objs(g, s, "rdf:type")
                                /\ "true" \in Objs(g, s, "schema:apc")}
      lic == [s \in S |-> Optional(g, s, "dc:license")]
      seal == [s \in S |-> Optional(g, s, "schema:doajSeal")]
      apc == [s \in S |-> {Unbound}]
  IN HandlerOutcomes(handler.dbPathOrUrl, 200, Solutions(g, S, lic, seal, apc))

\* ?journal schema:doajSeal "true", ?seal unbound
JournalQueryHandler_getJournalsWithDOAJSeal(handler) ==
  LET g == IF handler.dbPathOrUrl \in GraphUrls THEN graph[handler.dbPathOrUrl] ELSE {}
      S == {s \in Subjects(g) : /\ "schema:Periodical" \in Objs(g, s, "rdf:type")
                                /\ "true" \in Objs(g, s, "schema:doajSeal")}
      lic == [s \in S |-> Optional(g, s, "dc:license")]
      seal == [s \in S |-> {Unbound}]
      apc == [s \in S |-> Optional(g, s, "schema:apc")]
  IN HandlerOutcomes(handler.dbPathOrUrl, 200, Solutions(g, S, lic, seal, apc))

\* the filtered methods of a journal handler, by name
JournalHandlerAnswers(handler, method, arg) ==
  CASE method = "getJournalsWithTitle" -> JournalQueryHandler_getJournalsWithTitle(handler, arg)
    [] method = "getJournalsPublishedBy" -> JournalQueryHandler_getJournalsPublishedBy(handler, arg)
    [] method = "getJournalsWithLicense" -> JournalQueryHandler_getJournalsWithLicense(handler, arg)
    [] method = "getJournalsWithAPC" -> JournalQueryHandler_getJournalsWithAPC(handler)
    [] method = "getJournalsWithDOAJSeal" -> JournalQueryHandler_getJournalsWithDOAJSeal(handler)

-----------------------------------------------------------------------------
(* CategoryQueryHandler, src/impl.py 517-644.  sqlite3.connect on a path   *)
(* that was never loaded (the unset path "" opens a private empty          *)
(* database) finds no table, and pandas raises DatabaseError.              *)

HasTables(path) == path \in DbPaths

\* X LEFT JOIN Y: the matching rows of Y, or one all-NULL row
LeftJoin(matching, nullRow) == IF matching = {} THEN {nullRow} ELSE matching

NullJournalCategory ==
  [journal_id |-> PyNone, category_id |-> PyNone, quartile |-> PyNone]
NullCategoryArea == [category_id |-> PyNone, area_id |-> PyNone]

SqlFrame(columns, rows) == [columns |-> columns, rows |-> rows]

\* lines 523-531: the rows of the category query, one per joined pair
CategoryRows(d, id) ==
  IF id \notin d.categories THEN {}
  ELSE {[category_id |-> id, quartile |-> j[1].quartile,
         area_id |-> IF j[2].area_id \in d.areas THEN j[2].area_id ELSE PyNone,
         of_journal |-> j[1].journal_id] :
          j \in LeftJoin({r \in d.journal_categories : r.category_id = id},
                         NullJournalCategory)
                \X LeftJoin({r \in d.category_areas : r.category_id = id},
                            NullCategoryArea)}

\* lines 535-543: the rows of the area query
AreaRows(d, id) ==
  UNION {UNION {{[area_id |-> a,
                  category_id |-> IF ca.category_id \in d.categories
                                  THEN ca.category_id ELSE PyNone,
                  quartile |-> jc.quartile, of_journal |-> jc.journal_id] :
                   jc \in LeftJoin({r \in d.journal_categories :
                                       r.category_id = ca.category_id
                                       /\ ca.category_id \in d.categories},
                                   NullJournalCategory)} :
                ca \in LeftJoin({r \in d.category_areas : r.area_id = a},
                                NullCategoryArea)} : a \in d.areas \cap {id}}

\* the DataFrame of a result set delivered in the order `rows`
ProbeFrame(rows) ==
  SqlFrame({"category_id", "quartile", "area_id"},
           [i \in 1..Len(rows) |->
              [category_id |-> rows[i].category_id, quartile |-> rows[i].quartile,
               area_id |-> rows[i].area_id]])

CategoryQueryHandler_getById(handler, id) ==
  IF ~HasTables(handler.dbPathOrUrl) THEN {Raise("DatabaseError")}
  ELSE LET d == db[handler.dbPathOrUrl]
       IN UNION {IF FrameEmpty(ProbeFrame(cat)) \/ ProbeFrame(cat).rows[1].category_id = PyNone
                 THEN {Ok(ProbeFrame(area)) : area \in FirstRowOrders(AreaRows(d, id))}
                 ELSE {Ok(ProbeFrame(cat))} : cat \in FirstRowOrders(CategoryRows(d, id))}

\* lines 552-556: SELECT DISTINCT c.id as category_id, jc.quartile FROM
\* categories c LEFT JOIN journal_categories jc
AllCategoriesRows(d) ==
  UNION {{[category_id |-> c, quartile |-> jc.quartile] :
            jc \in LeftJoin({r \in d.journal_categories : r.category_id = c},
                            NullJournalCategory)} : c \in d.categories}

\* lines 574-589: JOIN ... WHERE jc.quartile IN (...), or the query of
\* getAllCategories when no quartile is given
CategoriesWithQuartileRows(d, quartiles) ==
  IF quartiles # {}
  THEN {[category_id |-> jc.category_id, quartile |-> jc.quartile] :
          jc \in {r \in d.journal_categories :
                    r.category_id \in d.categories /\ r.quartile \in quartiles}}
  ELSE AllCategoriesRows(d)

\* lines 597-616: SELECT DISTINCT c.id, a.id, jc.quartile, restricted to the
\* areas when some are given
CategoriesAssignedToAreasRows(d, area_ids) ==
  UNION {{[category_id |-> ca.category_id, area_id |-> ca.area_id,
           quartile |-> jc.quartile] :
            jc \in LeftJoin({r \in d.journal_categories : r.category_id = ca.category_id},
                            NullJournalCategory)} :
           ca \in {x \in d.category_areas :
                     /\ x.category_id \in d.categories
                     /\ x.area_id \in d.areas
                     /\ area_ids # {} => x.area_id \in area_ids}}

\* lines 624-641: SELECT DISTINCT a.id, c.id, restricted to the categories
\* when some are given
AreasAssignedToCategoriesRows(d, category_ids) ==
  {[area_id |-> ca.area_id, category_id |-> ca.category_id] :
     ca \in {x \in d.category_areas :
               /\ x.category_id \in d.categories
               /\ x.area_id \in d.areas
               /\ category_ids # {} => x.category_id \in category_ids}}

\* the result sets of the bulk methods of a category handler, by name
BulkRows(d, method, arg) ==
  CASE method = "getAllCategories" -> AllCategoriesRows(d)
    [] method = "getAllAreas" -> {[area_id |-> a] : a \in d.areas}
    [] method = "getCategoriesWithQuartile" -> CategoriesWithQuartileRows(d, arg)
    [] method = "getCategoriesAssignedToAreas" -> CategoriesAssignedToAreasRows(d, arg)
    [] method = "getAreasAssignedToCategories" -> AreasAssignedToCategoriesRows(d, arg)

\* the columns of those result sets
BulkColumns(method) ==
  CASE method = "getAllCategories" -> {"category_id", "quartile"}
    [] method = "getAllAreas" -> {"area_id"}
    [] method = "getCategoriesWithQuartile" -> {"category_id", "quartile"}
    [] method = "getCategoriesAssignedToAreas" -> {"category_id", "area_id", "quartile"}
    [] method = "getAreasAssignedToCategories" -> {"area_id", "category_id"}

\* lines 550-644: connect, read_sql_query, close; the rows of a SELECT
\* without ORDER BY come in an order the engine does not control: any row
\* may be delivered first
CategoryHandlerAnswers(handler, method, arg) ==
  IF ~HasTables(handler.dbPathOrUrl) THEN {Raise("DatabaseError")}
  ELSE {Ok(SqlFrame(BulkColumns(method), rows)) :
          rows \in FirstRowOrders(BulkRows(db[handler.dbPathOrUrl], method, arg))}

-----------------------------------------------------------------------------
(* BasicQueryEngine, src/impl.py 646-995                                   *)

\* row.get(name, default) / journal_data.get(name, default)
RowGet(df, row, name, default) == IF name \in df.columns THEN row[name] ELSE default

\* a hydration that gives a category the quartile of any journal's
\* association with it
RECURSIVE CategoriesFrom_QuartileOfCategory(_, _)
CategoriesFrom_QuartileOfCategory(journal_id, i) ==
  IF i > Len(categoryQuery) THEN {Ok(<<>>)}
  ELSE IF ~HasTables(categoryQuery[i].dbPathOrUrl) THEN {Raise("DatabaseError")}
  ELSE LET d == db[categoryQuery[i].dbPathOrUrl]
           own == {x \in d.journal_categories :
                     x.journal_id = journal_id /\ x.category_id \in d.categories}
           rows == UNION {{<<r.category_id, q.quartile>> :
                             q \in {y \in d.journal_categories :
                                      y.category_id = r.category_id}} : r \in own}
       IN {IF rest.raised THEN rest
           ELSE Ok([k \in 1..Len(order) |-> Category(order[k][1], order[k][2])] \o rest.val) :
             order \in Enumerations(rows),
             rest \in CategoriesFrom_QuartileOfCategory(journal_id, i + 1)}

\* a hydration that stops after one category handler
CategoriesFrom_OneStoreOnly(journal_id, i) ==
  IF i > Len(categoryQuery) THEN {Ok(<<>>)}
  ELSE IF ~HasTables(categoryQuery[i].dbPathOrUrl) THEN {Raise("DatabaseError")}
  ELSE LET d == db[categoryQuery[i].dbPathOrUrl]
           rows == {<<r.category_id, r.quartile>> :
                      r \in {x \in d.journal_categories :
                               x.journal_id = journal_id /\ x.category_id \in d.categories}}
       IN {Ok([k \in 1..Len(order) |-> Category(order[k][1], order[k][2])]) :
             order \in Enumerations(rows)}

\* lines 720-737, from the i-th category handler on
RECURSIVE CategoriesFrom(_, _)
CategoriesFrom(journal_id, i) ==
  IF i > Len(categoryQuery) THEN {Ok(<<>>)}
  ELSE IF ~HasTables(categoryQuery[i].dbPathOrUrl) THEN {Raise("DatabaseError")}
  ELSE LET d == db[categoryQuery[i].dbPathOrUrl]
           rows == {<<r.category_id, r.quartile>> :
                      r \in {x \in d.journal_categories :
                               x.journal_id = journal_id /\ x.category_id \in d.categories}}
       IN {IF rest.raised THEN rest
           ELSE Ok([k \in 1..Len(order) |-> Category(order[k][1], order[k][2])] \o rest.val) :
             order \in Enumerations(rows), rest \in CategoriesFrom(journal_id, i + 1)}

BasicQueryEngine_getCategoriesForJournal(journal_id) == CategoriesFrom(journal_id, 1)

\* lines 739-758, from the i-th category handler on
RECURSIVE AreasFrom(_, _)
AreasFrom(journal_id, i) ==
  IF i > Len(categoryQuery) THEN {Ok(<<>>)}
  ELSE IF ~HasTables(categoryQuery[i].dbPathOrUrl) THEN {Raise("DatabaseError")}
  ELSE LET d == db[categoryQuery[i].dbPathOrUrl]
           rows == {ca.area_id :
                      ca \in {x \in d.category_areas :
                                /\ x.area_id \in d.areas
                                /\ x.category_id \in d.categories
                                /\ \E jc \in d.journal_categories :
                                     /\ jc.category_id = x.category_id
                                     /\ jc.journal_id = journal_id}}
       IN {IF rest.raised THEN rest
           ELSE Ok([k \in 1..Len(order) |-> Area(order[k])] \o rest.val) :
             order \in Enumerations(rows), rest \in AreasFrom(journal_id, i + 1)}

BasicQueryEngine_getAreasForJournal(journal_id) == AreasFrom(journal_id, 1)

\* a row -> Journal that looks the categories and areas up under the whole
\* journal URI of the row
JournalOfRow_HydratesByUri(journal_id, df, row) ==
  LET title == RowGet(df, row, "title", "")
      publisher == RowGet(df, row, "publisher", PyNone)
      licence == RowGet(df, row, "license", PyNone)
      seal_str == Lower(PyStr(RowGet(df, row, "seal", "false")))
      apc_str == Lower(PyStr(RowGet(df, row, "apc", "false")))
      languages == IF "language" \in df.columns /\ Truthy(row["language"])
                   THEN <<row["language"]>> ELSE <<>>
  IN {IF c.raised THEN c
      ELSE IF a.raised THEN a
      ELSE Ok(Journal(journal_id, title, languages, publisher, seal_str = "true",
                      licence, apc_str = "true", c.val, a.val)) :
        c \in BasicQueryEngine_getCategoriesForJournal(RowGet(df, row, "journal", PyNone)),
        a \in BasicQueryEngine_getAreasForJournal(RowGet(df, row, "journal", PyNone))}

\* the Journal built from one row of a journal handler's answer
\* (lines 678-698, repeated at 770-788 and in every journal query)
JournalOfRow(journal_id, df, row) ==
  LET title == RowGet(df, row, "title", "")
      publisher == RowGet(df, row, "publisher", PyNone)
      licence == RowGet(df, row, "license", PyNone)
      seal_str == Lower(PyStr(RowGet(df, row, "seal", "false")))
      apc_str == Lower(PyStr(RowGet(df, row, "apc", "false")))
      languages == IF "language" \in df.columns /\ Truthy(row["language"])
                   THEN <<row["language"]>> ELSE <<>>
  IN {IF c.raised THEN c
      ELSE IF a.raised THEN a
      ELSE Ok(Journal(journal_id, title, languages, publisher, seal_str = "true",
                      licence, apc_str = "true", c.val, a.val)) :
        c \in BasicQueryEngine_getCategoriesForJournal(journal_id),
        a \in BasicQueryEngine_getAreasForJournal(journal_id)}

\* one invocation of a method of the index-th handler of a registry
Invocation(registry, index, method) ==
  [registry |-> registry, index |-> index, method |-> method]

\* an outcome of the engine together with the handler invocations made
Done(outcome) == [out |-> outcome, invoked |-> <<>>]

\* the invocation e was made, then what `results` say
After(e, results) ==
  {[out |-> p.out, invoked |-> <<e>> \o p.invoked] : p \in results}

\* lines 710-718: the area probes, from the i-th category handler on
RECURSIVE AreaProbe(_, _)
AreaProbe(id, i) ==
  IF i > Len(categoryQuery) THEN {Done(Ok(NoEntity))}
  ELSE UNION {After(Invocation("categoryQuery", i, "getById"),
                IF r.raised THEN {Done(r)}
                ELSE IF ~FrameEmpty(r.val) /\ "area_id" \in r.val.columns
                        /\ r.val.rows[1].area_id = id
                     THEN {Done(Ok(Area(id)))}
                     ELSE AreaProbe(id, i + 1)) :
                r \in CategoryQueryHandler_getById(categoryQuery[i], id)}

\* df['quartile'].isna().all()
AllNull(df, name) == \A k \in 1..Len(df.rows) : df.rows[k][name] = PyNone

\* a category probe that gives up after one handler: on a miss it goes on to
\* the area probes
CategoryProbe_FirstStoreOnly(id, i) ==
  IF i > Len(categoryQuery) THEN AreaProbe(id, 1)
  ELSE UNION {After(Invocation("categoryQuery", i, "getById"),
                IF r.raised THEN {Done(r)}
                ELSE IF ~FrameEmpty(r.val) /\ "category_id" \in r.val.columns
                        /\ r.val.rows[1].category_id = id
                     THEN {Done(Ok(Category(id, IF "quartile" \in r.val.columns
                                                  /\ ~AllNull(r.val, "quartile")
                                               THEN r.val.rows[1].quartile
                                               ELSE PyNone)))}
                     ELSE AreaProbe(id, 1)) :
                r \in CategoryQueryHandler_getById(categoryQuery[i], id)}

\* lines 700-708: the category probes, from the i-th category handler on
RECURSIVE CategoryProbe(_, _)
CategoryProbe(id, i) ==
  IF i > Len(categoryQuery) THEN AreaProbe(id, 1)
  ELSE UNION {After(Invocation("categoryQuery", i, "getById"),
                IF r.raised THEN {Done(r)}
                ELSE IF ~FrameEmpty(r.val) /\ "category_id" \in r.val.columns
                        /\ r.val.rows[1].category_id = id
                     THEN {Done(Ok(Category(id, IF "quartile" \in r.val.columns
                                                  /\ ~AllNull(r.val, "quartile")
                                               THEN r.val.rows[1].quartile
                                               ELSE PyNone)))}
                     ELSE CategoryProbe(id, i + 1)) :
                r \in CategoryQueryHandler_getById(categoryQuery[i], id)}

\* journal probes that, after a hit, still ask every later journal handler
RECURSIVE JournalProbe_AsksEveryStore(_, _)
JournalProbe_AsksEveryStore(id, i) ==
  IF i > Len(journalQuery) THEN CategoryProbe(id, 1)
  ELSE UNION {After(Invocation("journalQuery", i, "getById"),
                IF r.raised THEN {Done(r)}
                ELSE IF ~FrameEmpty(r.val)
                     THEN {[out |-> j,
                            invoked |-> [k \in 1..(Len(journalQuery) - i) |->
                                           Invocation("journalQuery", i + k, "getById")]] :
                             j \in JournalOfRow(id, r.val, r.val.rows[1])}
                     ELSE JournalProbe_AsksEveryStore(id, i + 1)) :
                r \in JournalQueryHandler_getById(journalQuery[i], id)}

\* lines 674-698: the journal probes, from the i-th journal handler on
RECURSIVE JournalProbe(_, _)
JournalProbe(id, i) ==
  IF i > Len(journalQuery) THEN CategoryProbe(id, 1)
  ELSE UNION {After(Invocation("journalQuery", i, "getById"),
                IF r.raised THEN {Done(r)}
                ELSE IF ~FrameEmpty(r.val)
                     THEN {Done(j) : j \in JournalOfRow(id, r.val, r.val.rows[1])}
                     ELSE JournalProbe(id, i + 1)) :
                r \in JournalQueryHandler_getById(journalQuery[i], id)}

\* the outcomes of getEntityById(id) in the current state
BasicQueryEngine_getEntityById(id) == {p.out : p \in JournalProbe(id, 1)}

\* r, then rest, as one list: the first exception raised leaves the call
Then(r, rest) ==
  IF r.raised THEN r ELSE IF rest.raised THEN rest ELSE Ok(r.val \o rest.val)

\* lines 764-789: the rows of one answer, from row k on
RECURSIVE AllJournalsRows(_, _)
AllJournalsRows(df, k) ==
  IF k > Len(df.rows) THEN {Ok(<<>>)}
  ELSE LET row == df.rows[k]
           journal_uri == RowGet(df, row, "journal", PyNone)
       IN IF ~Truthy(journal_uri) \/ ~IsStr(journal_uri) THEN AllJournalsRows(df, k + 1)
          ELSE {Then(IF j.raised THEN j ELSE Ok(<<j.val>>), rest) :
                  j \in JournalOfRow(LastSegment(journal_uri), df, row),
                  rest \in AllJournalsRows(df, k + 1)}

\* lines 760-791, from the i-th journal handler on
RECURSIVE AllJournalsFrom(_)
AllJournalsFrom(i) ==
  IF i > Len(journalQuery) THEN {Done(Ok(<<>>))}
  ELSE UNION {After(Invocation("journalQuery", i, "getAllJournals"),
                IF r.raised THEN {Done(r)}
                ELSE UNION {IF rows.raised THEN {Done(rows)}
                            ELSE {[out |-> Then(rows, rest.out),
                                   invoked |-> rest.invoked] :
                                    rest \in AllJournalsFrom(i + 1)} :
                              rows \in AllJournalsRows(r.val, 1)}) :
                r \in JournalQueryHandler_getAllJournals(journalQuery[i])}

BasicQueryEngine_getAllJournals == {p.out : p \in AllJournalsFrom(1)}

\* lines 797-819 (the same at 827-849, 857-879, 887-907, 915-935): the rows
\* of one filtered answer, from row k on; getJournalsWithAPC builds its
\* journals with apc True, getJournalsWithDOAJSeal with seal True
RECURSIVE FilteredRows(_, _, _)
FilteredRows(df, k, method) ==
  IF k > Len(df.rows) THEN {Ok(<<>>)}
  ELSE LET row == df.rows[k]
       IN IF ~IsStr(row["journal"]) THEN {Raise("AttributeError")}
          ELSE {Then(IF j.raised THEN j
                     ELSE Ok(<<[j.val EXCEPT
                                  !.apc = IF method = "getJournalsWithAPC"
                                          THEN TRUE ELSE @,
                                  !.seal = IF method = "getJournalsWithDOAJSeal"
                                           THEN TRUE ELSE @]>>), rest) :
                  j \in JournalOfRow(LastSegment(row["journal"]), df, row),
                  rest \in FilteredRows(df, k + 1, method)}

\* lines 793-937: a filtered journal query, from the i-th journal handler on
RECURSIVE JournalQueryFrom(_, _, _)
JournalQueryFrom(method, arg, i) ==
  IF i > Len(journalQuery) THEN {Done(Ok(<<>>))}
  ELSE UNION {After(Invocation("journalQuery", i, method),
                IF r.raised THEN {Done(r)}
                ELSE UNION {IF rows.raised THEN {Done(rows)}
                            ELSE {[out |-> Then(rows, rest.out),
                                   invoked |-> rest.invoked] :
                                    rest \in JournalQueryFrom(method, arg, i + 1)} :
                              rows \in FilteredRows(r.val, 1, method)}) :
                r \in JournalHandlerAnswers(journalQuery[i], method, arg)}

\* lines 943-947 and 955-958: one entity per row of the answer
EntitiesOfFrame(df, method) ==
  [k \in 1..Len(df.rows) |->
     IF method \in {"getAllAreas", "getAreasAssignedToCategories"}
     THEN Area(df.rows[k].area_id)
     ELSE Category(df.rows[k].category_id, RowGet(df, df.rows[k], "quartile", PyNone))]

\* a fan-out that puts the entities of the later handlers first
RECURSIVE CategoryQueryFrom_LaterStoresFirst(_, _, _)
CategoryQueryFrom_LaterStoresFirst(method, arg, i) ==
  IF i > Len(categoryQuery) THEN {Done(Ok(<<>>))}
  ELSE UNION {After(Invocation("categoryQuery", i, method),
                IF r.raised THEN {Done(r)}
                ELSE {[out |-> Then(rest.out, Ok(EntitiesOfFrame(r.val, method))),
                       invoked |-> rest.invoked] :
                        rest \in CategoryQueryFrom_LaterStoresFirst(method, arg, i + 1)}) :
                r \in CategoryHandlerAnswers(categoryQuery[i], method, arg)}

\* lines 939-995: a category or area query, from the i-th category handler on
RECURSIVE CategoryQueryFrom(_, _, _)
CategoryQueryFrom(method, arg, i) ==
  IF i > Len(categoryQuery) THEN {Done(Ok(<<>>))}
  ELSE UNION {After(Invocation("categoryQuery", i, method),
                IF r.raised THEN {Done(r)}
                ELSE {[out |-> Then(Ok(EntitiesOfFrame(r.val, method)), rest.out),
                       invoked |-> rest.invoked] :
                        rest \in CategoryQueryFrom(method, arg, i + 1)}) :
                r \in CategoryHandlerAnswers(categoryQuery[i], method, arg)}

-----------------------------------------------------------------------------
(* FullQueryEngine, src/impl.py 997-1213                                   *)

CategoryDbs == {categoryQuery[i].dbPathOrUrl : i \in 1..Len(categoryQuery)}

\* some registered category handler points at a database without tables
SomeDbFails == \E path \in CategoryDbs : ~HasTables(path)

\* journal and isinstance(journal, Journal)
IsJournal(e) == e.kind # "None" /\ e.kind = "Journal"

\* a resolution that returns one Journal per journal handler whose store
\* holds the id
RECURSIVE ResolveEach_OncePerJournalStore(_, _, _)
ResolveEach_OncePerJournalStore(ids, k, diamond) ==
  IF k > Len(ids) THEN {Ok(<<>>)}
  ELSE LET holders == {i \in 1..Len(journalQuery) :
                         \E r \in JournalQueryHandler_getById(journalQuery[i], ids[k]) :
                           ~r.raised /\ ~FrameEmpty(r.val)}
       IN UNION {IF e.raised THEN {e}
                 ELSE {Then(IF IsJournal(e.val) /\ (diamond => ~e.val.apc)
                            THEN Ok([n \in 1..Cardinality(holders) |-> e.val])
                            ELSE Ok(<<>>), rest) :
                         rest \in ResolveEach_OncePerJournalStore(ids, k + 1, diamond)} :
                   e \in BasicQueryEngine_getEntityById(ids[k])}

\* a resolution that keeps whatever entity an id resolves to
RECURSIVE ResolveEach_KeepsAnyEntity(_, _, _)
ResolveEach_KeepsAnyEntity(ids, k, diamond) ==
  IF k > Len(ids) THEN {Ok(<<>>)}
  ELSE UNION {IF e.raised THEN {e}
              ELSE {Then(IF e.val.kind # "None" THEN Ok(<<e.val>>) ELSE Ok(<<>>), rest) :
                      rest \in ResolveEach_KeepsAnyEntity(ids, k + 1, diamond)} :
                e \in BasicQueryEngine_getEntityById(ids[k])}

\* lines 1047-1054 and 1206-1213: getEntityById for each id of `ids` in turn;
\* the diamond query also wants `not journal.hasAPC()`
RECURSIVE ResolveEach(_, _, _)
ResolveEach(ids, k, diamond) ==
  IF k > Len(ids) THEN {Ok(<<>>)}
  ELSE UNION {IF e.raised THEN {e}
              ELSE {Then(IF IsJournal(e.val) /\ (diamond => ~e.val.apc)
                         THEN Ok(<<e.val>>) ELSE Ok(<<>>), rest) :
                      rest \in ResolveEach(ids, k + 1, diamond)} :
                e \in BasicQueryEngine_getEntityById(ids[k])}

\* a join that tests the category and the quartile on separate associations
\* of the journal
JournalIdsMatching_SeparateRows(category_ids, quartiles) ==
  UNION {{jc.journal_id :
            jc \in {x \in db[path].journal_categories :
                      /\ x.category_id \in category_ids
                      /\ \E y \in db[path].journal_categories :
                           y.journal_id = x.journal_id /\ y.quartile \in quartiles}} :
           path \in CategoryDbs}

\* lines 1026-1045: SELECT DISTINCT journal_id ... WHERE category_id IN (..)
\* AND quartile IN (..), over every category handler
JournalIdsMatching(category_ids, quartiles) ==
  UNION {{jc.journal_id : jc \in {x \in db[path].journal_categories :
                                    x.category_id \in category_ids
                                    /\ x.quartile \in quartiles}} :
           path \in CategoryDbs}

\* an empty quartile argument left as it is
AllQuartiles_NotExpanded == {}

\* lines 1005-1018: the distinct category ids and non-NULL quartiles
AllCategoriesOfAssociations ==
  UNION {{jc.category_id : jc \in db[path].journal_categories} : path \in CategoryDbs}
AllQuartiles ==
  UNION {{jc.quartile : jc \in {x \in db[path].journal_categories : x.quartile # PyNone}} :
           path \in CategoryDbs}

FullQueryEngine_getJournalsInCategoriesWithQuartile(category_ids, quartiles) ==
  IF SomeDbFails THEN {Raise("DatabaseError")}
  ELSE LET cs == IF category_ids = {} THEN AllCategoriesOfAssociations ELSE category_ids
           qs == IF quartiles = {} THEN AllQuartiles ELSE quartiles
       IN UNION {ResolveEach(ids, 1, FALSE) :
                   ids \in Enumerations(JournalIdsMatching(cs, qs))}

\* lines 1061-1063 and 1152-1154: handler.getAllAreas() of every category handler
AllAreas == UNION {db[path].areas : path \in CategoryDbs}

\* lines 1066-1085: SELECT DISTINCT ?license, one request per journal
\* handler, read from the bindings themselves; from the i-th handler on,
\* with the licenses found so far
RECURSIVE AllLicensesFrom(_, _)
AllLicensesFrom(i, all_licenses) ==
  IF i > Len(journalQuery) THEN Ok(all_licenses)
  ELSE LET url == journalQuery[i].dbPathOrUrl
           g == IF url \in GraphUrls THEN graph[url] ELSE {}
           found == {t.o : t \in {x \in g : x.p = "dc:license"}}
           response == HttpGet(url, 200, SomeOrder(found))
       IN IF response.raised THEN response
          ELSE IF ResponseJson(response.val).raised THEN ResponseJson(response.val)
          ELSE AllLicensesFrom(i + 1, IF response.val.status_code = 200
                                      THEN all_licenses \cup found ELSE all_licenses)

AllLicenses == AllLicensesFrom(1, {})

\* lines 1094-1112: journal ids joined to an area of area_ids, over every
\* category handler
JournalIdsInAreas(area_ids) ==
  UNION {{jc.journal_id :
            jc \in {x \in db[path].journal_categories :
                      /\ x.category_id \in db[path].categories
                      /\ \E ca \in db[path].category_areas :
                           /\ ca.category_id = x.category_id
                           /\ ca.area_id \in db[path].areas
                           /\ ca.area_id \in area_ids}} : path \in CategoryDbs}

\* a row loop that takes the id from str(row['journal']) and appends every
\* row, with no test against the journals of the areas
RECURSIVE LicenseRows_Unfiltered(_, _, _)
LicenseRows_Unfiltered(df, k, journal_ids_in_areas) ==
  IF k > Len(df.rows) THEN {Ok(<<>>)}
  ELSE LET row == df.rows[k]
           journal_id == LastSegment(PyStr(row["journal"]))
       IN {Then(IF j.raised THEN j ELSE Ok(<<j.val>>), rest) :
             j \in JournalOfRow(journal_id, df, row),
             rest \in LicenseRows_Unfiltered(df, k + 1, journal_ids_in_areas)}

\* lines 1118-1141: the rows of one license answer, from row k on
RECURSIVE LicenseRows(_, _, _)
LicenseRows(df, k, journal_ids_in_areas) ==
  IF k > Len(df.rows) THEN {Ok(<<>>)}
  ELSE LET row == df.rows[k]
       IN IF ~IsStr(row["journal"]) THEN {Raise("AttributeError")}
          ELSE IF LastSegment(row["journal"]) \in journal_ids_in_areas
          THEN {Then(IF j.raised THEN j ELSE Ok(<<j.val>>), rest) :
                  j \in JournalOfRow(LastSegment(row["journal"]), df, row),
                  rest \in LicenseRows(df, k + 1, journal_ids_in_areas)}
          ELSE LicenseRows(df, k + 1, journal_ids_in_areas)

\* lines 1115-1143, from the i-th journal handler on
RECURSIVE LicenseFrom(_, _, _)
LicenseFrom(i, licenses, journal_ids_in_areas) ==
  IF i > Len(journalQuery) THEN {Ok(<<>>)}
  ELSE UNION {IF r.raised THEN {r}
              ELSE {Then(rows, rest) :
                      rows \in LicenseRows(r.val, 1, journal_ids_in_areas),
                      rest \in LicenseFrom(i + 1, licenses, journal_ids_in_areas)} :
                r \in JournalQueryHandler_getJournalsWithLicense(journalQuery[i], licenses)}

FullQueryEngine_getJournalsInAreasWithLicense(area_ids, licenses) ==
  IF SomeDbFails THEN {Raise("DatabaseError")}
  ELSE IF AllLicenses.raised THEN {AllLicenses}
  ELSE LET as == IF area_ids = {} THEN AllAreas ELSE area_ids
           ls == IF licenses = {} THEN AllLicenses.val ELSE licenses
       IN LicenseFrom(1, ls, JournalIdsInAreas(as))

\* lines 1161-1163: SELECT DISTINCT id FROM categories
AllCategories == UNION {db[path].categories : path \in CategoryDbs}

\* a three-way join that leaves the area test out
DiamondJournalIds_AnyArea(area_ids, category_ids, quartiles) ==
  UNION {{jc.journal_id :
            jc \in {x \in db[path].journal_categories :
                      /\ x.category_id \in db[path].categories
                      /\ x.category_id \in category_ids
                      /\ x.quartile \in quartiles}} : path \in CategoryDbs}

\* lines 1180-1204: the three-way join, over every category handler
DiamondJournalIds(area_ids, category_ids, quartiles) ==
  UNION {{jc.journal_id :
            jc \in {x \in db[path].journal_categories :
                      /\ x.category_id \in db[path].categories
                      /\ x.category_id \in category_ids
                      /\ x.quartile \in quartiles
                      /\ \E ca \in db[path].category_areas :
                           /\ ca.category_id = x.category_id
                           /\ ca.area_id \in db[path].areas
                           /\ ca.area_id \in area_ids}} : path \in CategoryDbs}

FullQueryEngine_getDiamondJournalsInAreasAndCategoriesWithQuartile(area_ids, category_ids, quartiles) ==
  IF SomeDbFails THEN {Raise("DatabaseError")}
  ELSE LET as == IF area_ids = {} THEN AllAreas ELSE area_ids
           cs == IF category_ids = {} THEN AllCategories ELSE category_ids
           qs == IF quartiles = {} THEN AllQuartiles ELSE quartiles
       IN UNION {ResolveEach(ids, 1, TRUE) :
                   ids \in Enumerations(DiamondJournalIds(as, cs, qs))}

-----------------------------------------------------------------------------
(* The state machine: the stores as loaded, one engine, one caller         *)

NoCall == [op |-> "none"]

\* all_categories and all_quartiles of a call that is not between its two
\* passes over the category handlers, and the stores it has read them from
NoDefaults ==
  [all_categories |-> {}, all_quartiles |-> {}, seen |-> [path \in DbPaths |-> EmptyDb]]

Init ==
  /\ graph = [url \in GraphUrls |-> JournalPushDataToDb({}, JournalFile(url))]
  /\ db = [path \in DbPaths |-> CategoryPushDataToDb(EmptyDb, CategoryFile(path))]
  /\ net = "up"
  /\ journalQuery = <<>>
  /\ categoryQuery = <<>>
  /\ pc = "idle"
  /\ call = NoCall
  /\ ret = Ok(PyNone)
  /\ invoked = <<>>
  /\ connections = 0
  /\ discovered = NoDefaults

\* the connections a call has opened and not closed when it is left with
\* `outcome`: every round-trip is sqlite3.connect, pd.read_sql_query,
\* conn.close() in a row, with no try/finally and no context manager, so the
\* DatabaseError of read_sql_query leaves the call between connect and close
OpenConnections(outcome) ==
  IF outcome.raised /\ outcome.exc = "DatabaseError" THEN 1 ELSE 0

\* a call made by the idle caller is left with one of `results`: what it
\* returns or raises, and the handler methods it has invoked
Completes(c, results) ==
  /\ pc = "idle"
  /\ pc' = "returned"
  /\ call' = c
  /\ \E p \in results :
       /\ ret' = p.out
       /\ invoked' = p.invoked
       /\ connections' = OpenConnections(p.out)
  /\ UNCHANGED <<graph, db, net, discovered>>

\* a call whose handler invocations are not recorded returns (or raises) one
\* of `outcomes`
Returns(c, outcomes) == Completes(c, {Done(o) : o \in outcomes})

\* a clean that resets both registries
cleanJournalHandlers_ClearsBoth ==
  /\ journalQuery' = <<>>
  /\ categoryQuery' = <<>>
  /\ Returns([op |-> "cleanJournalHandlers"], {Ok(TRUE)})

cleanJournalHandlers ==
  /\ journalQuery' = <<>>
  /\ Returns([op |-> "cleanJournalHandlers"], {Ok(TRUE)})
  /\ UNCHANGED categoryQuery

cleanCategoryHandlers ==
  /\ categoryQuery' = <<>>
  /\ Returns([op |-> "cleanCategoryHandlers"], {Ok(TRUE)})
  /\ UNCHANGED journalQuery

addJournalHandler ==
  \E handler \in Objects :
    /\ Len(journalQuery) + Len(categoryQuery) < MaxHandlers
    /\ IF IsInstance(handler, "JournalQueryHandler")
       THEN /\ journalQuery' = Append(journalQuery, handler)
            /\ Returns([op |-> "addJournalHandler", handler |-> handler], {Ok(TRUE)})
       ELSE /\ journalQuery' = journalQuery
            /\ Returns([op |-> "addJournalHandler", handler |-> handler], {Ok(FALSE)})
    /\ UNCHANGED categoryQuery

addCategoryHandler ==
  \E handler \in Objects :
    /\ Len(journalQuery) + Len(categoryQuery) < MaxHandlers
    /\ IF IsInstance(handler, "CategoryQueryHandler")
       THEN /\ categoryQuery' = Append(categoryQuery, handler)
            /\ Returns([op |-> "addCategoryHandler", handler |-> handler], {Ok(TRUE)})
       ELSE /\ categoryQuery' = categoryQuery
            /\ Returns([op |-> "addCategoryHandler", handler |-> handler], {Ok(FALSE)})
    /\ UNCHANGED journalQuery

getEntityById ==
  \E id \in EntityIds :
    /\ Completes([op |-> "getEntityById", id |-> id], JournalProbe(id, 1))
    /\ UNCHANGED <<journalQuery, categoryQuery>>

getAllJournals ==
  /\ Completes([op |-> "getAllJournals"], AllJournalsFrom(1))
  /\ UNCHANGED <<journalQuery, categoryQuery>>

getJournalsWithTitle ==
  \E partial_title \in TitleArgs :
    /\ Completes([op |-> "getJournalsWithTitle", partial_title |-> partial_title],
                 JournalQueryFrom("getJournalsWithTitle", partial_title, 1))
    /\ UNCHANGED <<journalQuery, categoryQuery>>

getJournalsPublishedBy ==
  \E partial_name \in PublisherArgs :
    /\ Completes([op |-> "getJournalsPublishedBy", partial_name |-> partial_name],
                 JournalQueryFrom("getJournalsPublishedBy", partial_name, 1))
    /\ UNCHANGED <<journalQuery, categoryQuery>>

getJournalsWithLicense ==
  \E licenses \in SUBSET LicenseValues :
    /\ Completes([op |-> "getJournalsWithLicense", licenses |-> licenses],
                 JournalQueryFrom("getJournalsWithLicense", licenses, 1))
    /\ UNCHANGED <<journalQuery, categoryQuery>>

getJournalsWithAPC ==
  /\ Completes([op |-> "getJournalsWithAPC"],
               JournalQueryFrom("getJournalsWithAPC", PyNone, 1))
  /\ UNCHANGED <<journalQuery, categoryQuery>>

getJournalsWithDOAJSeal ==
  /\ Completes([op |-> "getJournalsWithDOAJSeal"],
               JournalQueryFrom("getJournalsWithDOAJSeal", PyNone, 1))
  /\ UNCHANGED <<journalQuery, categoryQuery>>

getAllCategories ==
  /\ Completes([op |-> "getAllCategories"],
               CategoryQueryFrom("getAllCategories", PyNone, 1))
  /\ UNCHANGED <<journalQuery, categoryQuery>>

getAllAreas ==
  /\ Completes([op |-> "getAllAreas"], CategoryQueryFrom("getAllAreas", PyNone, 1))
  /\ UNCHANGED <<journalQuery, categoryQuery>>

getCategoriesWithQuartile ==
  \E quartiles \in SUBSET Quartiles :
    /\ Completes([op |-> "getCategoriesWithQuartile", quartiles |-> quartiles],
                 CategoryQueryFrom("getCategoriesWithQuartile", quartiles, 1))
    /\ UNCHANGED <<journalQuery, categoryQuery>>

getCategoriesAssignedToAreas ==
  \E area_ids \in SUBSET AreaIdArgs :
    /\ Completes([op |-> "getCategoriesAssignedToAreas", area_ids |-> area_ids],
                 CategoryQueryFrom("getCategoriesAssignedToAreas", area_ids, 1))
    /\ UNCHANGED <<journalQuery, categoryQuery>>

getAreasAssignedToCategories ==
  \E category_ids \in SUBSET CategoryIdArgs :
    /\ Completes([op |-> "getAreasAssignedToCategories", category_ids |-> category_ids],
                 CategoryQueryFrom("getAreasAssignedToCategories", category_ids, 1))
    /\ UNCHANGED <<journalQuery, categoryQuery>>

getJournalsInCategoriesWithQuartile ==
  \E category_ids \in SUBSET CategoryIdArgs, quartiles \in SUBSET Quartiles :
    /\ Returns([op |-> "getJournalsInCategoriesWithQuartile",
                category_ids |-> category_ids, quartiles |-> quartiles],
               FullQueryEngine_getJournalsInCategoriesWithQuartile(category_ids, quartiles))
    /\ UNCHANGED <<journalQuery, categoryQuery>>

getJournalsInAreasWithLicense ==
  \E area_ids \in SUBSET AreaIdArgs, licenses \in SUBSET LicenseValues :
    /\ Returns([op |-> "getJournalsInAreasWithLicense",
                area_ids |-> area_ids, licenses |-> licenses],
               FullQueryEngine_getJournalsInAreasWithLicense(area_ids, licenses))
    /\ UNCHANGED <<journalQuery, categoryQuery>>

getDiamondJournalsInAreasAndCategoriesWithQuartile ==
  \E area_ids \in SUBSET AreaIdArgs, category_ids \in SUBSET CategoryIdArgs,
     quartiles \in SUBSET Quartiles :
    /\ Returns([op |-> "getDiamondJournalsInAreasAndCategoriesWithQuartile",
                area_ids |-> area_ids, category_ids |-> category_ids,
                quartiles |-> quartiles],
               FullQueryEngine_getDiamondJournalsInAreasAndCategoriesWithQuartile(
                 area_ids, category_ids, quartiles))
    /\ UNCHANGED <<journalQuery, categoryQuery>>

\* the caller has looked at the result and is ready for its next call
NextCall ==
  /\ pc = "returned"
  /\ pc' = "idle"
  /\ call' = NoCall
  /\ ret' = Ok(PyNone)
  /\ invoked' = <<>>
  /\ connections' = 0
  /\ discovered' = NoDefaults
  /\ UNCHANGED <<graph, db, net, journalQuery, categoryQuery>>

\* between two calls the graph endpoints go down, come back, or start to
\* answer with an error status or with a body that is no JSON
EndpointChanges ==
  /\ pc = "idle"
  /\ net' \in EndpointStates \ {net}
  /\ UNCHANGED <<graph, db, journalQuery, categoryQuery, pc, call, ret, invoked,
                 connections, discovered>>

Next ==
  \/ cleanJournalHandlers
  \/ cleanCategoryHandlers
  \/ addJournalHandler
  \/ addCategoryHandler
  \/ getEntityById
  \/ getAllJournals
  \/ getJournalsWithTitle
  \/ getJournalsPublishedBy
  \/ getJournalsWithLicense
  \/ getJournalsWithAPC
  \/ getJournalsWithDOAJSeal
  \/ getAllCategories
  \/ getAllAreas
  \/ getCategoriesWithQuartile
  \/ getCategoriesAssignedToAreas
  \/ getAreasAssignedToCategories
  \/ getJournalsInCategoriesWithQuartile
  \/ getJournalsInAreasWithLicense
  \/ getDiamondJournalsInAreasAndCategoriesWithQuartile
  \/ NextCall
  \/ EndpointChanges

Spec == Init /\ [][Next]_vars

-----------------------------------------------------------------------------
(* The row loops of the journal queries as functions of the answer they    *)
(* are given: lines 764-789, 797-819 (and its four copies) and 1118-1141   *)
(* applied to the DataFrames of a bounded set, over every registry.        *)

JournalColumns ==
  {"journal", "title", "language", "publisher", "license", "seal", "apc"}

FrameRow(journal, title, language, publisher, license, seal, apc) ==
  [journal |-> journal, title |-> title, language |-> language,
   publisher |-> publisher, license |-> license, seal |-> seal, apc |-> apc]

\* an answer whose cells are the value strings of the bindings the endpoint
\* gives for the getAllJournals pattern, None where a variable is unbound
BindingValuesFrame(url) ==
  LET g == graph[url]
      S == {s \in Subjects(g) : "schema:Periodical" \in Objs(g, s, "rdf:type")}
      lic == [s \in S |-> Optional(g, s, "dc:license")]
      seal == [s \in S |-> Optional(g, s, "schema:doajSeal")]
      apc == [s \in S |-> Optional(g, s, "schema:apc")]
      rows == {[n \in JournalColumns |-> IF n \in DOMAIN b THEN b[n].value ELSE PyNone] :
                 b \in Solutions(g, S, lic, seal, apc)}
  IN [columns |-> JournalColumns, rows |-> SomeOrder(rows)]

\* an answer whose journal URIs end in an identifier the category stores
\* know, one journal on two rows
IdentifierFrame ==
  [columns |-> JournalColumns,
   rows |-> << FrameRow("http://example.org/journal/j1", "Alpha", "en", "P1", "L1",
                        "true", "False"),
               FrameRow("http://example.org/journal/j1", "Alpha", "fr", "P1", "L1",
                        "true", "False") >>]

\* an answer with a row that carries a journal URI and two that carry none
MalformedFrame ==
  [columns |-> JournalColumns,
   rows |-> << FrameRow("http://example.org/journal/j1", "Alpha", PyNone, "P1", "L1",
                        "True", "true"),
               FrameRow(PyNone, "Alpha", PyNone, "P1", "L1", "true", "false"),
               FrameRow(PyNaN, "Beta Review", "en", PyNone, "L2", "false", "false") >>]

\* df = handler.getAllJournals() and its siblings: the answers handed to the
\* row loops
JournalFrames ==
  {BindingValuesFrame(url) : url \in GraphUrls}
    \cup {IdentifierFrame, MalformedFrame, EmptyFrame}

FilteredJournalQueries ==
  {"getJournalsWithTitle", "getJournalsPublishedBy", "getJournalsWithLicense",
   "getJournalsWithAPC", "getJournalsWithDOAJSeal"}

\* lines 764-789 on one answer
AllJournalsLoop ==
  \E df \in JournalFrames :
    /\ Returns([op |-> "getAllJournals", df |-> df], AllJournalsRows(df, 1))
    /\ UNCHANGED <<journalQuery, categoryQuery>>

\* lines 797-819, 827-849, 857-879, 887-907, 915-935 on one answer
FilteredJournalsLoop ==
  \E df \in JournalFrames, method \in FilteredJournalQueries :
    /\ Returns([op |-> method, df |-> df], FilteredRows(df, 1, method))
    /\ UNCHANGED <<journalQuery, categoryQuery>>

\* lines 1094-1141 on one answer: the join with the areas, then the rows
LicenseJournalsLoop ==
  \E df \in JournalFrames, area_ids \in SUBSET AreaIdArgs :
    /\ Returns([op |-> "getJournalsInAreasWithLicense", df |-> df, area_ids |-> area_ids],
               IF SomeDbFails THEN {Raise("DatabaseError")}
               ELSE LicenseRows(df, 1, JournalIdsInAreas(IF area_ids = {} THEN AllAreas
                                                         ELSE area_ids)))
    /\ UNCHANGED <<journalQuery, categoryQuery>>

RowNext ==
  \/ cleanJournalHandlers
  \/ cleanCategoryHandlers
  \/ addJournalHandler
  \/ addCategoryHandler
  \/ AllJournalsLoop
  \/ FilteredJournalsLoop
  \/ LicenseJournalsLoop
  \/ NextCall

RowSpec == Init /\ [][RowNext]_vars

-----------------------------------------------------------------------------
(* getJournalsInCategoriesWithQuartile next to a process that loads a      *)
(* category store.  The call reads the category stores in two passes, each *)
(* with connections of its own and no transaction around the two: lines    *)
(* 1005-1018 collect the defaults, lines 1026-1054 select and resolve the  *)
(* journals.  An upload commits once, at line 254.                         *)

\* the files the databases of this scenario start from
EarlierFile(path) ==
  IF path = "d1"
  THEN << JsonItem(<<"j3">>, <<JsonCategory("c1", "Q1")>>, <<"a1">>) >>
  ELSE << JsonItem(<<"j2">>, <<JsonCategory("c1", "Q2")>>, <<"a1">>) >>

\* the file another process loads while the engine is in use
LaterFile ==
  << JsonItem(<<"j1">>, <<JsonCategory("c1", "Q1")>>, <<"a1">>),
     JsonItem(<<"j2">>, <<JsonCategory("c2", "Q2")>>, <<>>) >>

ConcInit ==
  /\ graph = [url \in GraphUrls |-> JournalPushDataToDb({}, JournalFile(url))]
  /\ db = [path \in DbPaths |-> CategoryPushDataToDb(EmptyDb, EarlierFile(path))]
  /\ net = "up"
  /\ journalQuery = <<>>
  /\ categoryQuery = <<>>
  /\ pc = "idle"
  /\ call = NoCall
  /\ ret = Ok(PyNone)
  /\ invoked = <<>>
  /\ connections = 0
  /\ discovered = NoDefaults

\* a first pass that asks the first category handler only
Defaults_FirstStoreOnly ==
  LET first == IF categoryQuery = <<>> THEN {} ELSE {categoryQuery[1].dbPathOrUrl}
  IN [all_categories |->
        UNION {{jc.category_id : jc \in db[path].journal_categories} : path \in first},
      all_quartiles |->
        UNION {{jc.quartile : jc \in {x \in db[path].journal_categories :
                                        x.quartile # PyNone}} : path \in first},
      seen |-> db]

\* lines 1005-1018: what the first pass leaves in all_categories and
\* all_quartiles
Defaults ==
  [all_categories |-> AllCategoriesOfAssociations, all_quartiles |-> AllQuartiles,
   seen |-> db]

\* CategoryUploadHandler.pushDataToDb run by another process, between two
\* calls of the engine or between the two passes of one
CategoryUploadHandler_pushDataToDb ==
  \E path \in DbPaths :
    /\ pc \in {"idle", "discovered"}
    /\ db' = [db EXCEPT ![path] = CategoryPushDataToDb(db[path], LaterFile)]
    /\ db' # db
    /\ UNCHANGED <<graph, net, journalQuery, categoryQuery, pc, call, ret, invoked,
                   connections, discovered>>

\* lines 999-1018: the call up to the end of its first pass
Discovery ==
  \E category_ids \in SUBSET {"c1"}, quartiles \in SUBSET {"Q1"} :
    /\ pc = "idle"
    /\ call' = [op |-> "getJournalsInCategoriesWithQuartile",
                category_ids |-> category_ids, quartiles |-> quartiles]
    /\ IF SomeDbFails
       THEN /\ pc' = "returned"
            /\ ret' = Raise("DatabaseError")
            /\ connections' = OpenConnections(ret')
            /\ discovered' = discovered
       ELSE /\ pc' = "discovered"
            /\ ret' = ret
            /\ connections' = 0
            /\ discovered' = Defaults
    /\ invoked' = <<>>
    /\ UNCHANGED <<graph, db, net, journalQuery, categoryQuery>>

\* lines 1020-1054: the defaults put in place of the empty arguments, the
\* second pass and the resolution of the ids
Selection ==
  /\ pc = "discovered"
  /\ pc' = "returned"
  /\ LET category_ids == IF call.category_ids = {} THEN discovered.all_categories
                         ELSE call.category_ids
         quartiles == IF call.quartiles = {} THEN discovered.all_quartiles
                      ELSE call.quartiles
     IN \E o \in IF SomeDbFails THEN {Raise("DatabaseError")}
                 ELSE UNION {ResolveEach(ids, 1, FALSE) :
                               ids \in Enumerations(JournalIdsMatching(category_ids,
                                                                      quartiles))} :
          /\ ret' = o
          /\ connections' = OpenConnections(o)
  /\ UNCHANGED <<graph, db, net, journalQuery, categoryQuery, call, invoked, discovered>>

ConcNext ==
  \/ cleanJournalHandlers
  \/ cleanCategoryHandlers
  \/ addJournalHandler
  \/ addCategoryHandler
  \/ Discovery
  \/ Selection
  \/ CategoryUploadHandler_pushDataToDb
  \/ NextCall

ConcSpec == ConcInit /\ [][ConcNext]_vars

-----------------------------------------------------------------------------
(* What the stores hold, stated on the stores themselves                   *)

Registered(registry) == {registry[i].dbPathOrUrl : i \in 1..Len(registry)}

\* the endpoint holds a titled journal with this identifier
KnowsJournal(url, id) ==
  /\ url \in GraphUrls
  /\ net = "up"
  /\ \E t \in graph[url] :
       /\ t.p = "dc:identifier" /\ t.o = id
       /\ \E u \in graph[url] : u.s = t.s /\ u.p = "dc:title"

KnownAsJournal(id) == \E url \in Registered(journalQuery) : KnowsJournal(url, id)
KnownAsCategory(id) ==
  \E path \in Registered(categoryQuery) \cap DbPaths : id \in db[path].categories
KnownAsArea(id) ==
  \E path \in Registered(categoryQuery) \cap DbPaths : id \in db[path].areas

\* the journal-category associations of the registered category stores
Associations ==
  UNION {db[path].journal_categories : path \in Registered(categoryQuery) \cap DbPaths}

Ids(list) == {list[i].id : i \in 1..Len(list)}

Returned(op) == pc = "returned" /\ call.op = op /\ ~ret.raised

-----------------------------------------------------------------------------
(* Claims                                                                  *)

\* C1: addJournalHandler(h) returns True and appends h to the journal
\* registry exactly when h is a JournalQueryHandler, addCategoryHandler(h)
\* returns True and appends h to the category registry exactly when h is a
\* CategoryQueryHandler; a handler of the wrong kind gets False, no
\* exception, and both registries stay as they were.
C1_AddChecksKind ==
  [][/\ (pc = "idle" /\ call'.op = "addJournalHandler") =>
          IF call'.handler.cls = "JournalQueryHandler"
          THEN /\ ret' = Ok(TRUE)
               /\ journalQuery' = Append(journalQuery, call'.handler)
               /\ categoryQuery' = categoryQuery
          ELSE /\ ret' = Ok(FALSE)
               /\ journalQuery' = journalQuery
               /\ categoryQuery' = categoryQuery
     /\ (pc = "idle" /\ call'.op = "addCategoryHandler") =>
          IF call'.handler.cls = "CategoryQueryHandler"
          THEN /\ ret' = Ok(TRUE)
               /\ categoryQuery' = Append(categoryQuery, call'.handler)
               /\ journalQuery' = journalQuery
          ELSE /\ ret' = Ok(FALSE)
               /\ journalQuery' = journalQuery
               /\ categoryQuery' = categoryQuery]_vars

\* a category handler offered to the journal registry of a non-empty engine
\* was refused
C1_Witness ==
  /\ pc = "returned" /\ call.op = "addJournalHandler"
  /\ call.handler.cls = "CategoryQueryHandler"
  /\ ret = Ok(FALSE)
  /\ journalQuery # <<>>

\* C2: cleanJournalHandlers() returns True, empties the journal registry and
\* leaves the category registry alone; cleanCategoryHandlers() likewise for
\* the category registry; while a registry is empty, queries of that kind
\* see no handler (no journal is returned, and no category or area).
C2_CleanEmptiesOneRegistry ==
  [][/\ (pc = "idle" /\ call'.op = "cleanJournalHandlers") =>
          (ret' = Ok(TRUE) /\ journalQuery' = <<>> /\ categoryQuery' = categoryQuery)
     /\ (pc = "idle" /\ call'.op = "cleanCategoryHandlers") =>
          (ret' = Ok(TRUE) /\ categoryQuery' = <<>> /\ journalQuery' = journalQuery)
     /\ (call'.op = "getAllJournals" /\ journalQuery' = <<>>) => ret' = Ok(<<>>)
     /\ (call'.op = "getEntityById" /\ journalQuery' = <<>> /\ ~ret'.raised) =>
          ret'.val.kind # "Journal"
     /\ (call'.op = "getEntityById" /\ categoryQuery' = <<>> /\ ~ret'.raised) =>
          ret'.val.kind \notin {"Category", "Area"}]_vars

\* the journal registry was cleaned while the category registry held a
\* handler, which is still there
C2_Witness ==
  /\ pc = "returned" /\ call.op = "cleanJournalHandlers"
  /\ ret = Ok(TRUE) /\ journalQuery = <<>> /\ categoryQuery # <<>>

\* C3: for any registry and any id that no registered store knows as a
\* journal, category or area, getEntityById(id) returns None and raises no
\* error.
C3_UnknownIdIsNone ==
  (/\ pc = "returned" /\ call.op = "getEntityById"
   /\ ~KnownAsJournal(call.id) /\ ~KnownAsCategory(call.id) /\ ~KnownAsArea(call.id))
  => ret = Ok(NoEntity)

\* C4: whenever getEntityById(id) returns, the kind of the result follows
\* the priority journal, category, area over the whole registry: a Journal
\* if any registered journal store knows id, else a Category if any
\* registered category store knows id as a category, else an Area if any
\* knows it as an area, else None.
C4_KindPriority ==
  Returned("getEntityById") =>
    ret.val.kind = IF KnownAsJournal(call.id) THEN "Journal"
                   ELSE IF KnownAsCategory(call.id) THEN "Category"
                   ELSE IF KnownAsArea(call.id) THEN "Area"
                   ELSE "None"

\* the id is an area, not a category, in the first category store and a
\* category in the second: a Category was returned
C4_Witness ==
  /\ Returned("getEntityById") /\ ret.val.kind = "Category"
  /\ Len(categoryQuery) = 2
  /\ categoryQuery[1].dbPathOrUrl \in DbPaths
  /\ call.id \in db[categoryQuery[1].dbPathOrUrl].areas
  /\ call.id \notin db[categoryQuery[1].dbPathOrUrl].categories

\* the category ids and the non-null quartiles the registered category
\* stores know
KnownCategoryIds ==
  UNION {db[path].categories : path \in Registered(categoryQuery) \cap DbPaths}
KnownQuartiles == {a.quartile : a \in Associations} \ {PyNone}
KnownAreaIds ==
  UNION {db[path].areas : path \in Registered(categoryQuery) \cap DbPaths}

\* C5: getJournalsInCategoriesWithQuartile(empty, empty) returns the same set
\* of journal ids as the call with the full set of known category ids and
\* the full set of known non-null quartiles.
C5_EmptyEqualsFull ==
  /\ (/\ Returned("getJournalsInCategoriesWithQuartile")
      /\ call.category_ids = {} /\ call.quartiles = {})
     => \E o \in FullQueryEngine_getJournalsInCategoriesWithQuartile(
                   KnownCategoryIds, KnownQuartiles) :
          ~o.raised /\ Ids(o.val) = Ids(ret.val)
  /\ (/\ Returned("getJournalsInCategoriesWithQuartile")
      /\ call.category_ids = KnownCategoryIds /\ call.quartiles = KnownQuartiles)
     => \E o \in FullQueryEngine_getJournalsInCategoriesWithQuartile({}, {}) :
          ~o.raised /\ Ids(o.val) = Ids(ret.val)

\* the call with two empty sets returned journals, found through two stores
C5_Witness ==
  /\ Returned("getJournalsInCategoriesWithQuartile")
  /\ call.category_ids = {} /\ call.quartiles = {}
  /\ Cardinality(Ids(ret.val)) >= 2
  /\ Cardinality(KnownQuartiles) >= 2

\* C6: an empty quartile set means unrestricted on the quartile: for a
\* non-empty category set C, getJournalsInCategoriesWithQuartile(C, empty)
\* returns every journal that resolves to a Journal and has an association
\* with some category in C, whatever quartile (present or absent) the
\* association carries.
C6_EmptyQuartilesUnrestricted ==
  (/\ Returned("getJournalsInCategoriesWithQuartile")
   /\ call.category_ids # {} /\ call.quartiles = {})
  => Ids(ret.val) = {a.journal_id : a \in {x \in Associations :
                                             /\ x.category_id \in call.category_ids
                                             /\ KnownAsJournal(x.journal_id)}}

\* the journal store that answers for id: the first registered one knowing it
ResolvingStore(id) ==
  journalQuery[CHOOSE i \in 1..Len(journalQuery) :
                 /\ KnowsJournal(journalQuery[i].dbPathOrUrl, id)
                 /\ \A k \in 1..(i - 1) : ~KnowsJournal(journalQuery[k].dbPathOrUrl, id)
              ].dbPathOrUrl

\* the APC flags the store holds for the journal with this identifier
ApcFlags(url, id) ==
  {t.o : t \in {x \in graph[url] :
                  /\ x.p = "schema:apc"
                  /\ \E u \in graph[url] :
                       u.s = x.s /\ u.p = "dc:identifier" /\ u.o = id}}

\* C7: every Journal returned by
\* getDiamondJournalsInAreasAndCategoriesWithQuartile has apc == false, and
\* none of them is a journal whose store record carries an APC flag of true.
C7_DiamondHasNoApc ==
  Returned("getDiamondJournalsInAreasAndCategoriesWithQuartile") =>
    \A k \in 1..Len(ret.val) :
      /\ ret.val[k].apc = FALSE
      /\ \A flag \in ApcFlags(ResolvingStore(ret.val[k].id), ret.val[k].id) :
           Lower(flag) # "true"

\* the journal ids a registered category store links to an area of A through
\* a journal-category association and an area-category link
ReachableFromAreas(A) ==
  UNION {{jc.journal_id :
            jc \in {x \in db[path].journal_categories :
                      \E ca \in db[path].category_areas :
                        ca.category_id = x.category_id /\ ca.area_id \in A}} :
           path \in Registered(categoryQuery) \cap DbPaths}

C9_ConcatenatesStores ==
  (Returned("getAllJournals") /\ Len(journalQuery) = 2) =>
    \E first \in JournalQueryHandler_getAllJournals(journalQuery[1]),
       second \in JournalQueryHandler_getAllJournals(journalQuery[2]) :
      /\ ~first.raised /\ ~second.raised
      /\ Len(ret.val) = Len(first.val.rows) + Len(second.val.rows)
      /\ \A s \in Subjects(graph[journalQuery[1].dbPathOrUrl])
                 \cap Subjects(graph[journalQuery[2].dbPathOrUrl]) :
           Cardinality({k \in 1..Len(ret.val) : ret.val[k].id = LastSegment(s)}) >= 2

\* C10: for non-empty C and Q, getJournalsInCategoriesWithQuartile(C, Q)
\* returns a journal exactly when it resolves to a Journal and one single
\* association of it has its category in C and its quartile in Q.
C10_CategoryAndQuartileOnOneAssociation ==
  (/\ Returned("getJournalsInCategoriesWithQuartile")
   /\ call.category_ids # {} /\ call.quartiles # {})
  => /\ \A k \in 1..Len(ret.val) : ret.val[k].kind = "Journal"
     /\ Ids(ret.val) = {a.journal_id : a \in {x \in Associations :
                                                /\ x.category_id \in call.category_ids
                                                /\ x.quartile \in call.quartiles
                                                /\ KnownAsJournal(x.journal_id)}}

\* a journal known to a journal store is left out although it has a category
\* of C (with a quartile outside Q) and a quartile of Q (on a category
\* outside C), while another journal is returned
C10_Witness ==
  /\ Returned("getJournalsInCategoriesWithQuartile")
  /\ call.category_ids # {} /\ call.quartiles # {}
  /\ ret.val # <<>>
  /\ \E a \in Associations, b \in Associations :
       /\ a.journal_id = b.journal_id /\ KnownAsJournal(a.journal_id)
       /\ a.category_id \in call.category_ids /\ a.quartile \notin call.quartiles
       /\ b.category_id \notin call.category_ids /\ b.quartile \in call.quartiles
       /\ a.journal_id \notin Ids(ret.val)

\* the journals known to a registered journal store for which one registered
\* category store holds one association with its category in C, its quartile
\* in Q and its category linked to an area of A
DiamondMatches(A, C, Q) ==
  UNION {{jc.journal_id :
            jc \in {x \in db[path].journal_categories :
                      /\ x.category_id \in C
                      /\ x.quartile \in Q
                      /\ KnownAsJournal(x.journal_id)
                      /\ \E ca \in db[path].category_areas :
                           ca.category_id = x.category_id /\ ca.area_id \in A}} :
           path \in Registered(categoryQuery) \cap DbPaths}

\* the store that answers for the journal holds no APC flag of true for it
ApcFalse(id) == \A flag \in ApcFlags(ResolvingStore(id), id) : Lower(flag) # "true"

\* C11: getDiamondJournalsInAreasAndCategoriesWithQuartile(A, C, Q) returns
\* every journal with apc false that resolves to a Journal and has, in one
\* category store, one association with its category in C, its quartile in Q
\* and its category linked to an area of A; when A, C and Q are not empty and
\* no matching journal carries an APC flag of true, it returns exactly those
\* journals, each once (one such journal J: exactly [J]).
C11_DiamondReturnsEveryMatch ==
  Returned("getDiamondJournalsInAreasAndCategoriesWithQuartile") =>
    LET matches == DiamondMatches(call.area_ids, call.category_ids, call.quartiles)
    IN /\ {id \in matches : ApcFalse(id)} \subseteq Ids(ret.val)
       /\ (/\ call.area_ids # {} /\ call.category_ids # {} /\ call.quartiles # {}
           /\ \A id \in matches : ApcFalse(id))
          => /\ Ids(ret.val) = matches
             /\ Len(ret.val) = Cardinality(matches)
             /\ \A k \in 1..Len(ret.val) : ret.val[k].kind = "Journal"

\* the call with one area, one category and one quartile returned exactly
\* the one journal without APC that has that category with that quartile,
\* while a second journal known to the journal store is in that category too
C11_Witness ==
  /\ Returned("getDiamondJournalsInAreasAndCategoriesWithQuartile")
  /\ Cardinality(call.area_ids) = 1 /\ Cardinality(call.category_ids) = 1
  /\ Cardinality(call.quartiles) = 1
  /\ Len(ret.val) = 1
  /\ Ids(ret.val) = DiamondMatches(call.area_ids, call.category_ids, call.quartiles)
  /\ ApcFalse(ret.val[1].id)
  /\ \E a \in Associations :
       /\ a.category_id \in call.category_ids
       /\ a.journal_id # ret.val[1].id
       /\ KnownAsJournal(a.journal_id)

\* the exceptions of a failed round-trip to a graph endpoint
NetworkErrors == {"ConnectionError", "JSONDecodeError"}

\* C13: a failed call to a graph store (endpoint unreachable, non-200
\* answer, malformed body) degrades to an empty result for that store: the
\* JournalQueryHandler method returns an empty row set and no exception of
\* the failed round-trip reaches the caller of the engine.
C13_FailedGraphCallDegrades ==
  net # "up" =>
    /\ \A i \in 1..Len(journalQuery) :
         journalQuery[i].dbPathOrUrl \in GraphUrls =>
           \A r \in JournalQueryHandler_getAllJournals(journalQuery[i]) :
             ~r.raised /\ FrameEmpty(r.val)
    /\ pc = "returned" => ~(ret.raised /\ ret.exc \in NetworkErrors)

\* every registered store is loaded and answers
StoresHealthy ==
  /\ net = "up"
  /\ Registered(journalQuery) \subseteq GraphUrls
  /\ Registered(categoryQuery) \subseteq DbPaths

\* C14: an empty license set is never an error and means no restriction:
\* with every registered store answering, getJournalsInAreasWithLicense(A, {})
\* raises nothing and returns every journal the journal stores hold that is
\* a member of an area of A.
C14_EmptyLicensesUnrestricted ==
  (/\ pc = "returned" /\ call.op = "getJournalsInAreasWithLicense"
   /\ call.licenses = {}
   /\ StoresHealthy)
  => /\ ~ret.raised
     /\ {id \in ReachableFromAreas(IF call.area_ids = {} THEN KnownAreaIds
                                   ELSE call.area_ids) : KnownAsJournal(id)}
          \subseteq Ids(ret.val)

\* the categories the i-th registered category store associates with the
\* journal, each with the quartile of that association
StoreCategories(i, journal_id) ==
  IF categoryQuery[i].dbPathOrUrl \notin DbPaths THEN {}
  ELSE {Category(a.category_id, a.quartile) :
          a \in {x \in db[categoryQuery[i].dbPathOrUrl].journal_categories :
                   x.journal_id = journal_id}}

\* the areas the i-th registered category store links to a category of the
\* journal
StoreAreas(i, journal_id) ==
  IF categoryQuery[i].dbPathOrUrl \notin DbPaths THEN {}
  ELSE LET d == db[categoryQuery[i].dbPathOrUrl]
       IN {Area(ca.area_id) :
             ca \in {x \in d.category_areas :
                       \E a \in d.journal_categories :
                         a.journal_id = journal_id /\ a.category_id = x.category_id}}

\* the number of elements of the first i sets of `parts`
RECURSIVE SizeUpTo(_, _)
SizeUpTo(parts, i) == IF i = 0 THEN 0 ELSE SizeUpTo(parts, i - 1) + Cardinality(parts[i])

\* list is parts[1], then parts[2], ... each in some order, nothing else
IsConcatenation(list, parts) ==
  /\ Len(list) = SizeUpTo(parts, Len(parts))
  /\ \A i \in 1..Len(parts) :
       {list[k] : k \in (SizeUpTo(parts, i - 1) + 1)..SizeUpTo(parts, i)} = parts[i]

\* C15: when a registered journal store knows id, getEntityById(id) returns
\* a Journal whose id is the requested id and whose categories and areas are
\* the concatenation, over the registered category stores in registration
\* order, of the categories associated with the journal and of the areas
\* reachable from those categories in that store.
C15_JournalHydratedAcrossStores ==
  (Returned("getEntityById") /\ KnownAsJournal(call.id)) =>
    /\ ret.val.kind = "Journal"
    /\ ret.val.id = call.id
    /\ IsConcatenation(ret.val.categories,
                       [i \in 1..Len(categoryQuery) |-> StoreCategories(i, call.id)])
    /\ IsConcatenation(ret.val.areas,
                       [i \in 1..Len(categoryQuery) |-> StoreAreas(i, call.id)])

\* a journal was hydrated from two different category stores that both hold
\* categories and areas for it
C15_Witness ==
  /\ Returned("getEntityById") /\ KnownAsJournal(call.id)
  /\ Len(categoryQuery) = 2
  /\ categoryQuery[1] # categoryQuery[2]
  /\ \A i \in 1..2 : StoreCategories(i, call.id) # {} /\ StoreAreas(i, call.id) # {}
  /\ StoreCategories(1, call.id) # StoreCategories(2, call.id)
  /\ Len(ret.val.categories) >= 2

\* the probes of getEntityById in their order: every journal handler, then
\* every category handler for a category, then every category handler again
\* for an area
ProbeOrder ==
  [k \in 1..Len(journalQuery) |-> Invocation("journalQuery", k, "getById")]
  \o [k \in 1..Len(categoryQuery) |-> Invocation("categoryQuery", k, "getById")]
  \o [k \in 1..Len(categoryQuery) |-> Invocation("categoryQuery", k, "getById")]

\* the k-th probe of the order finds id in its store
ProbeHits(k, id) ==
  LET n == Len(journalQuery)
      m == Len(categoryQuery)
  IN IF k <= n THEN KnowsJournal(journalQuery[k].dbPathOrUrl, id)
     ELSE IF k <= n + m
          THEN /\ categoryQuery[k - n].dbPathOrUrl \in DbPaths
               /\ id \in db[categoryQuery[k - n].dbPathOrUrl].categories
          ELSE /\ categoryQuery[k - n - m].dbPathOrUrl \in DbPaths
               /\ id \in db[categoryQuery[k - n - m].dbPathOrUrl].areas

\* C16: in getEntityById the first match wins: the getById invocations of a
\* call follow the probe order (journal stores, category stores, category
\* stores again for an area), and once a probe has hit no later store is
\* asked in that call: after a journal hit no later journal store and no
\* category store, after a category hit no later category store and no area
\* probe.
C16_FirstMatchWins ==
  (pc = "returned" /\ call.op = "getEntityById") =>
    /\ Len(invoked) <= Len(ProbeOrder)
    /\ \A k \in 1..Len(invoked) :
         /\ invoked[k] = ProbeOrder[k]
         /\ ProbeHits(k, call.id) => k = Len(invoked)
    /\ (~ret.raised /\ ret.val.kind = "Journal") =>
         invoked[Len(invoked)].registry = "journalQuery"
    /\ (~ret.raised /\ ret.val.kind = "Category") =>
         Len(invoked) <= Len(journalQuery) + Len(categoryQuery)

\* the first journal store hit while a second journal store that knows the
\* id too and a category store were registered behind it, and only the first
\* was asked
C16_Witness ==
  /\ Returned("getEntityById") /\ ret.val.kind = "Journal"
  /\ Len(journalQuery) = 2 /\ Len(categoryQuery) = 1
  /\ KnowsJournal(journalQuery[1].dbPathOrUrl, call.id)
  /\ KnowsJournal(journalQuery[2].dbPathOrUrl, call.id)
  /\ invoked = <<Invocation("journalQuery", 1, "getById")>>

\* the category store whose probe resolved id to a Category: the first
\* registered one with id in its categories table
MatchingCategoryStore(id) ==
  categoryQuery[CHOOSE i \in 1..Len(categoryQuery) :
                  /\ ProbeHits(Len(journalQuery) + i, id)
                  /\ \A k \in 1..(i - 1) : ~ProbeHits(Len(journalQuery) + k, id)
               ].dbPathOrUrl

\* the non-null quartiles a store associates with a category id
QuartilesOfCategory(path, id) ==
  {a.quartile : a \in {x \in db[path].journal_categories : x.category_id = id}}
    \ {PyNone}

\* C17: when getEntityById(id) resolves id to a Category, its quartile is one
\* of the non-null quartiles associated with that category id in the
\* matching store, and it is None only when the store has no non-null
\* quartile for the category.
C17_CategoryQuartileNonNull ==
  (Returned("getEntityById") /\ ret.val.kind = "Category") =>
    LET known == QuartilesOfCategory(MatchingCategoryStore(call.id), call.id)
    IN IF known = {} THEN ret.val.quartile = PyNone
       ELSE ret.val.quartile \in known

\* C19: every relational round-trip releases its connection before the call
\* is left, on every exit path including the one where the query execution
\* raises: after a call has returned or raised, no connection it opened is
\* still open.
C19_ConnectionsReleased == pc = "returned" => connections = 0

\* the queries that return a list of entities
JournalQueries ==
  {"getAllJournals", "getJournalsWithTitle", "getJournalsPublishedBy",
   "getJournalsWithLicense", "getJournalsWithAPC", "getJournalsWithDOAJSeal",
   "getJournalsInCategoriesWithQuartile", "getJournalsInAreasWithLicense",
   "getDiamondJournalsInAreasAndCategoriesWithQuartile"}
CategoryQueries ==
  {"getAllCategories", "getCategoriesWithQuartile", "getCategoriesAssignedToAreas"}
AreaQueries == {"getAllAreas", "getAreasAssignedToCategories"}
ListQueries == JournalQueries \cup CategoryQueries \cup AreaQueries

\* the Journal objects the last call handed to its caller
ReturnedJournals ==
  IF pc # "returned" \/ ret.raised THEN {}
  ELSE IF call.op = "getEntityById"
       THEN (IF ret.val.kind = "Journal" THEN {ret.val} ELSE {})
       ELSE IF call.op \in ListQueries
            THEN {x \in Range(ret.val) : x.kind = "Journal"}
            ELSE {}

\* C20: each Category in the categories of a Journal the engine constructs
\* carries the quartile stored on that journal's own association with that
\* category (None when the association has none), never the quartile of
\* another journal's association with the same category id.
C20_OwnAssociationQuartile ==
  \A j \in ReturnedJournals :
    \A k \in 1..Len(j.categories) :
      \E a \in Associations :
        /\ a.journal_id = j.id
        /\ a.category_id = j.categories[k].id
        /\ a.quartile = j.categories[k].quartile

\* one call returned two journals that share a category id and carry
\* different quartiles for it
C20_Witness ==
  \E j \in ReturnedJournals, other \in ReturnedJournals :
    \E k \in 1..Len(j.categories), l \in 1..Len(other.categories) :
      /\ j.id # other.id
      /\ j.categories[k].id = other.categories[l].id
      /\ j.categories[k].quartile # other.categories[l].quartile
      /\ j.categories[k].quartile # PyNone /\ other.categories[l].quartile # PyNone

\* the kind of entity a query promises
PromisedKind(op) ==
  IF op \in JournalQueries THEN "Journal"
  ELSE IF op \in CategoryQueries THEN "Category" ELSE "Area"

\* the candidate journal ids of getJournalsInCategoriesWithQuartile(C, Q) for
\* non-empty C and Q: the ids of the associations that match
CandidateIds(C, Q) ==
  {a.journal_id : a \in {x \in Associations : x.category_id \in C /\ x.quartile \in Q}}

\* C12: every query returns a list whose elements all have the kind the
\* query promises (Journal for the journal queries and the three composite
\* queries, Category for the category queries, Area for the area queries);
\* in the composite queries that resolve candidate ids through getEntityById
\* an id resolving to None, a Category or an Area is dropped: it is not in
\* the result and, with every store answering, the call raises nothing.
C12_PromisedKindOnly ==
  /\ (pc = "returned" /\ ~ret.raised /\ call.op \in ListQueries) =>
       \A k \in 1..Len(ret.val) : ret.val[k].kind = PromisedKind(call.op)
  /\ (/\ pc = "returned"
      /\ call.op \in {"getJournalsInCategoriesWithQuartile",
                      "getDiamondJournalsInAreasAndCategoriesWithQuartile"})
     => /\ StoresHealthy => ~ret.raised
        /\ ~ret.raised => \A id \in Ids(ret.val) : KnownAsJournal(id)

\* a composite call returned journals while one of its candidate ids
\* resolves to a Category and another one to nothing
C12_Witness ==
  /\ Returned("getJournalsInCategoriesWithQuartile")
  /\ call.category_ids # {} /\ call.quartiles # {}
  /\ ret.val # <<>>
  /\ \E id \in CandidateIds(call.category_ids, call.quartiles) :
       ~KnownAsJournal(id) /\ KnownAsCategory(id)
  /\ \E id \in CandidateIds(call.category_ids, call.quartiles) :
       ~KnownAsJournal(id) /\ ~KnownAsCategory(id) /\ ~KnownAsArea(id)

\* the single-kind queries on the journal handlers
JournalFanOuts ==
  {"getAllJournals", "getJournalsWithTitle", "getJournalsPublishedBy",
   "getJournalsWithLicense", "getJournalsWithAPC", "getJournalsWithDOAJSeal"}

\* the argument of the last call of a category or area query
CallArg ==
  CASE call.op = "getCategoriesWithQuartile" -> call.quartiles
    [] call.op = "getCategoriesAssignedToAreas" -> call.area_ids
    [] call.op = "getAreasAssignedToCategories" -> call.category_ids
    [] OTHER -> PyNone

\* the handler invocations of a complete fan-out: the method of every
\* registered handler, once each, in registration order
FanOut(registry, name, method) ==
  [k \in 1..Len(registry) |-> Invocation(name, k, method)]

\* the entities the i-th registered category store answers the last call
\* with, one per row of its result set
StoreAnswer(i) ==
  IF categoryQuery[i].dbPathOrUrl \notin DbPaths THEN {}
  ELSE {IF call.op \in AreaQueries THEN Area(r.area_id)
        ELSE Category(r.category_id, r.quartile) :
          r \in BulkRows(db[categoryQuery[i].dbPathOrUrl], call.op, CallArg)}

\* the number of rows of the first i stores' result sets
RECURSIVE RowsUpTo(_)
RowsUpTo(i) ==
  IF i = 0 THEN 0
  ELSE RowsUpTo(i - 1)
       + (IF categoryQuery[i].dbPathOrUrl \notin DbPaths THEN 0
          ELSE Cardinality(BulkRows(db[categoryQuery[i].dbPathOrUrl], call.op, CallArg)))

C28_OneJournalPerId ==
  (\/ Returned("getJournalsInCategoriesWithQuartile")
   \/ Returned("getDiamondJournalsInAreasAndCategoriesWithQuartile"))
  => \A k \in 1..Len(ret.val), l \in 1..Len(ret.val) :
       ret.val[k].id = ret.val[l].id => k = l

\* a composite call returned a journal that two registered journal stores
\* hold and that has a matching association in a registered category store
C28_Witness ==
  /\ \/ Returned("getJournalsInCategoriesWithQuartile")
     \/ Returned("getDiamondJournalsInAreasAndCategoriesWithQuartile")
  /\ Len(journalQuery) = 2
  /\ \E k \in 1..Len(ret.val) :
       /\ KnowsJournal(journalQuery[1].dbPathOrUrl, ret.val[k].id)
       /\ KnowsJournal(journalQuery[2].dbPathOrUrl, ret.val[k].id)
       /\ \E a \in Associations : a.journal_id = ret.val[k].id

\* the rows of the file an endpoint was loaded from that pushDataToDb
\* ingested with Yes in the APC column, and in the DOAJ Seal column
IngestedWithApc(url) ==
  {j \in Range(JournalFile(url)) : j.title # "" /\ Lower(Strip(j.apc)) = "yes"}
IngestedWithSeal(url) ==
  {j \in Range(JournalFile(url)) : j.title # "" /\ Lower(Strip(j.seal)) = "yes"}

\* C26: the flag filters reflect the ingested data: every journal that
\* pushDataToDb ingested with APC = Yes is among the rows of
\* JournalQueryHandler.getJournalsWithAPC (one row at least per such
\* journal), and every journal ingested with DOAJ Seal = Yes is among the
\* rows of getJournalsWithDOAJSeal.
C26_FlagFiltersReflectIngest ==
  net = "up" =>
    \A url \in GraphUrls :
      /\ \A r \in JournalQueryHandler_getJournalsWithAPC(Handler("JournalQueryHandler", url)) :
           ~r.raised /\ Len(r.val.rows) >= Cardinality(IngestedWithApc(url))
      /\ \A r \in JournalQueryHandler_getJournalsWithDOAJSeal(Handler("JournalQueryHandler", url)) :
           ~r.raised /\ Len(r.val.rows) >= Cardinality(IngestedWithSeal(url))

\* C25: for a status-200 answer with bindings, the rows of a
\* JournalQueryHandler method hold the value strings of the bindings: the
\* journal cell of every row is the URI of a stored journal and its title
\* cell is a title the store holds for that journal.
C25_RowsHoldBindingValues ==
  net = "up" =>
    \A url \in GraphUrls :
      \A r \in JournalQueryHandler_getAllJournals(Handler("JournalQueryHandler", url)) :
        ~r.raised =>
          \A i \in 1..Len(r.val.rows) :
            /\ r.val.rows[i].journal \in Subjects(graph[url])
            /\ r.val.rows[i].title \in Objs(graph[url], r.val.rows[i].journal, "dc:title")

\* C24: no malformed store row is fatal: a bulk or filtered journal query, or
\* getJournalsInAreasWithLicense, whose journal store answers with a row that
\* has no journal URI string skips the row and raises nothing for it.
C24_MalformedRowsSkipped ==
  (/\ pc = "returned"
   /\ call.op \in JournalFanOuts \cup {"getJournalsInAreasWithLicense"}
   /\ \E i \in 1..Len(journalQuery) :
        \E r \in JournalQueryHandler_getAllJournals(journalQuery[i]) :
          /\ ~r.raised
          /\ \E k \in 1..Len(r.val.rows) : r.val.rows[k].journal = PyNone)
  => ~(ret.raised /\ ret.exc = "AttributeError")

\* the journal queries whose Journals are built row by row from a journal
\* handler's answer
RowBuiltQueries == JournalFanOuts \cup {"getJournalsInAreasWithLicense"}

C22_OneJournalPerLanguageRow ==
  (Returned("getAllJournals") /\ StoresHealthy /\ Len(journalQuery) = 1) =>
    LET g == graph[journalQuery[1].dbPathOrUrl]
        copies(s) == {k \in 1..Len(ret.val) : ret.val[k].id = LastSegment(s)}
    IN /\ \A s \in {x \in Subjects(g) : /\ "schema:Periodical" \in Objs(g, x, "rdf:type")
                                        /\ Objs(g, x, "dc:title") # {}} :
            IF Objs(g, s, "dc:language") = {}
            THEN \E k \in copies(s) : copies(s) = {k} /\ ret.val[k].languages = <<>>
            ELSE \A l \in Objs(g, s, "dc:language") :
                   Cardinality({k \in copies(s) : ret.val[k].languages = <<l>>}) = 1
       /\ \A k \in 1..Len(ret.val) : Len(ret.val[k].languages) <= 1

\* the identifiers the endpoint stores for the journal whose URI ends in id
IdentifiersOf(url, id) ==
  UNION {Objs(graph[url], s, "dc:identifier") :
           s \in {x \in Subjects(graph[url]) : LastSegment(x) = id}}

AtomicIds(stores) ==
  {a.journal_id :
     a \in {x \in UNION {stores[path].journal_categories :
                           path \in Registered(categoryQuery) \cap DbPaths} :
              x.quartile # PyNone /\ KnownAsJournal(x.journal_id)}}

\* C23: getJournalsInCategoriesWithQuartile has no snapshot isolation between
\* its default-discovery pass and its filtering pass: the journals returned
\* are those the stores associate, at the time of the filtering pass, with a
\* category and a quartile that were read (or asked for) at the time of the
\* discovery pass; when the stores did not change in between, the result is
\* a result of the call computed on that single store state.
C23_NoSnapshotBetweenPasses ==
  Returned("getJournalsInCategoriesWithQuartile") =>
    /\ Ids(ret.val)
         = {a.journal_id :
              a \in {x \in Associations :
                       /\ x.category_id \in (IF call.category_ids = {}
                                             THEN discovered.all_categories
                                             ELSE call.category_ids)
                       /\ x.quartile \in (IF call.quartiles = {}
                                          THEN discovered.all_quartiles
                                          ELSE call.quartiles)
                       /\ KnownAsJournal(x.journal_id)}}
    /\ discovered.seen = db =>
         ret \in FullQueryEngine_getJournalsInCategoriesWithQuartile(call.category_ids,
                                                                     call.quartiles)

\* a call with both arguments empty returned, while a store was loaded between
\* its passes, a journal set that is neither the one of the stores before the
\* load nor the one of the stores after it: it holds a journal the load
\* associated with an old category and quartile and omits one whose only
\* association uses a category and quartile the load added
C23_Witness ==
  /\ Returned("getJournalsInCategoriesWithQuartile")
  /\ call.category_ids = {} /\ call.quartiles = {}
  /\ discovered.seen # db
  /\ Ids(ret.val) # AtomicIds(discovered.seen)
  /\ Ids(ret.val) # AtomicIds(db)
  /\ \E id \in AtomicIds(db) \ Ids(ret.val) :
       \A a \in Associations :
         a.journal_id = id => /\ a.category_id \notin discovered.all_categories
                              /\ a.quartile \notin discovered.all_quartiles

====
